---- MODULE Spec2Model ----
(***************************************************************************)
(* Ownership handles and error translation of the cxxmpi wrapper library.  *)
(*                                                                         *)
(* The program state is a set of C++ objects (slots) that are either bare  *)
(* handles (weak_X_handle, or the std::unique_ptr X_handle) or wrappers    *)
(* (comm, cart_comm, dtype, file and their weak_ variants), together with  *)
(* the state of the native library: which native resources were acquired   *)
(* and how often each was passed to MPI_Comm_free / MPI_Type_free /        *)
(* MPI_File_close.                                                         *)
(***************************************************************************)
EXTENDS Integers, Sequences, FiniteSets, TLC

\* ---------------------------------------------------------------- bounds
NSlots == 2          \* program variables that can hold an object
MaxRes == 2          \* native resources the library can acquire in one run
MaxAdopt == 1        \* explicit adoptions of a native value in one run

\* ------------------------------------------------ native handle values
MPI_NULL == 0        \* MPI_COMM_NULL / MPI_DATATYPE_NULL / MPI_FILE_NULL
MPI_COMM_WORLD == 1
MPI_COMM_SELF == 2
MPI_INT == 3         \* a builtin datatype, as_builtin_datatype<int>()
MPI_UNDEFINED == -32766
FirstFresh == MPI_INT + 1
MaxId == MPI_INT + MaxRes
FreshIds == FirstFresh..MaxId
Ids == 1..MaxId

\* ------------------------------------------------ native result codes
MPI_SUCCESS == 0
MPI_ERR_BUFFER == 1
MPI_ERR_COUNT == 2
MPI_ERR_TYPE == 3
MPI_ERR_COMM == 5
MPI_ERR_ARG == 12
MPI_ERR_OTHER == 15
MPI_ERR_ACCESS == 20
MPI_ERR_FILE_EXISTS == 25
MPI_ERR_IO == 32
MPI_ERR_NO_MEM == 34
MPI_ERR_NO_SPACE == 36
MPI_ERR_NO_SUCH_FILE == 37
MPI_ERR_READ_ONLY == 40

\* ---------------------------------------------------- the communicator
WorldSize == 2       \* processes in MPI_COMM_WORLD
MyRank == 0          \* rank of the modelled process

Slots == 1..NSlots
Kinds == {"comm", "cart", "dtype", "file"}

\* The native resource kind a C++ type refers to: a Cartesian communicator
\* is a communicator.
NativeKind(k) == IF k = "cart" THEN "comm" ELSE k

VARIABLES
  resource,  \* the native resource kind the run works with
  obj,       \* obj[s]: the object held by program variable s
  nextId,    \* the next native handle value the library hands out
  nat,       \* nat[n]: kind ("none" before acquisition) and group size of n
  ownAcq,    \* natives whose acquisition was wrapped in an owning handle
  freed,     \* freed[n]: number of release calls made for native n
  nAdopt,    \* owning handles constructed from a native value in use
  last,      \* the operation executed last, and what it threw
  err,       \* the error translation layer: last call, its input and result
  call       \* the last call of a free function or query, and its outcome

vars == <<resource, obj, nextId, nat, ownAcq, freed, nAdopt, last, err, call>>

\* A variable that holds no object (not yet constructed, or destroyed).
NoObj == [alive |-> FALSE, kind |-> "comm", own |-> FALSE, wrap |-> FALSE,
          h |-> MPI_NULL, rank |-> -1, size |-> -1]

Obj(k, own, wrap, h, rank, size) ==
  [alive |-> TRUE, kind |-> k, own |-> own, wrap |-> wrap,
   h |-> h, rank |-> rank, size |-> size]

NoExc == [type |-> "none", code |-> MPI_SUCCESS]
InvalidArgument == [type |-> "invalid_argument", code |-> MPI_SUCCESS]

\* What the last operation was: its name, the variable d it constructed or
\* acted on and its source s (0: none), whether the object concerned is an
\* owning one, the native value h concerned (the value given to a new
\* object, or the value d held before), the result rc of the native creation
\* call it made, what it threw, and the natives it passed to a release call.
Op(name, d, s, own, h, rc, exc, rel) ==
  [op |-> name, d |-> d, s |-> s, own |-> own, h |-> h, rc |-> rc,
   exc |-> exc, rel |-> rel]

Did(name, d, s, own, h) ==
  Op(name, d, s, own, h, MPI_SUCCESS, NoExc, {})

Released(fr, fr2) == {n \in DOMAIN fr : fr2[n] # fr[n]}

\* ------------------------------------------------ native library state
Predefined(k) ==
  IF k = "comm" THEN {MPI_COMM_WORLD, MPI_COMM_SELF}
  ELSE IF k = "dtype" THEN {MPI_INT} ELSE {}

\* n denotes a live native resource of native kind k.
Live(n, k) ==
  \/ n \in Predefined(k)
  \/ n \in FreshIds /\ nat[n].kind = k /\ freed[n] = 0

\* n was handed out as a resource of kind k and has been released since.
Stale(n, k) == n \in FreshIds /\ nat[n].kind = k /\ freed[n] > 0

\* What the native library answers to a call whose handle argument is live,
\* null, or stale (already released: the call is erroneous and may go
\* either way).  A call on a live handle can still fail (MPI_ERR_OTHER).
Status(n, k) ==
  IF n = MPI_NULL THEN "null" ELSE IF Live(n, k) THEN "live" ELSE "stale"

NativeRc(status, code) ==
  CASE status = "live" -> {MPI_SUCCESS, MPI_ERR_OTHER}
    [] status = "null" -> {code}
    [] status = "stale" -> {MPI_SUCCESS, code}

\* The calling process has rank MyRank in MPI_COMM_WORLD and keeps it in
\* every communicator made without reordering; MPI_COMM_SELF has one rank.
MPI_Comm_rank(n) == IF n = MPI_COMM_SELF THEN 0 ELSE MyRank

MPI_Comm_size(n) == IF n = MPI_NULL THEN 0 ELSE nat[n].size

\* ------------------------------------------------------------ deleters
\* Each deleter is TRUE exactly when it calls the native release function.
\* Variant: the deleter without the MPI_COMM_WORLD / MPI_COMM_SELF test.
comm_deleter_any(n) == n # MPI_NULL

comm_deleter(n) ==
  n # MPI_NULL /\ n # MPI_COMM_WORLD /\ n # MPI_COMM_SELF

dtype_deleter(n) == n # MPI_NULL

file_deleter(n) == n # MPI_NULL

Deleter(k, n) ==
  CASE NativeKind(k) = "comm" -> comm_deleter(n)
    [] k = "dtype" -> dtype_deleter(n)
    [] k = "file" -> file_deleter(n)

\* std::unique_ptr: the destructor and reset() call the deleter only when
\* the stored pointer differs from nullptr.
UniquePtrDrop(fr, k, n) ==
  IF n # MPI_NULL /\ Deleter(k, n) THEN [fr EXCEPT ![n] = @ + 1] ELSE fr

\* Variant: a weak handle that runs the deleter as well.
DropAnyHandle(fr, o) == UniquePtrDrop(fr, o.kind, o.h)

\* Destruction of the handle member of object o: only a unique_ptr acts.
Drop(fr, o) == IF o.own THEN UniquePtrDrop(fr, o.kind, o.h) ELSE fr

\* ------------------------------------------------------------- helpers
SameType(a, b) == a.kind = b.kind /\ a.own = b.own /\ a.wrap = b.wrap

\* Native values the program can name for kind k: null, the predefined
\* ones, and whatever native() of a living object returns.
Exposed(k) ==
  {obj[s].h : s \in {x \in Slots : obj[x].alive
                                   /\ NativeKind(obj[x].kind) = k}}

Visible(k) == {MPI_NULL} \cup Predefined(k) \cup Exposed(k)

Acquire(k, own, sz) ==
  /\ nextId' = nextId + 1
  /\ nat' = [nat EXCEPT ![nextId] = [kind |-> k, size |-> sz]]
  /\ ownAcq' = IF own THEN ownAcq \cup {nextId} ELSE ownAcq
  /\ UNCHANGED <<resource, err, call>>

NoAcquire == UNCHANGED <<resource, nextId, nat, ownAcq, err, call>>

CanAcquire == nextId <= MaxId

\* --------------------------------------------------- error translation
\* std::errc values used by default_error_condition
not_enough_memory == 12
no_buffer_space == 105
permission_denied == 13
no_space_on_device == 28
file_exists == 17
no_such_file_or_directory == 2
io_error == 5
read_only_file_system == 30

\* A category is an object: its name and which constructed object it is.
GenericCategory == [name |-> "generic", object |-> 0]
NoCode == [value |-> 0, category |-> [name |-> "none", object |-> 0]]

\* Variant: an instance() that constructs a new object on every call.
instance_fresh(cats) == <<[name |-> "cxxmpi", object |-> cats + 1], cats + 1>>

\* error_category::instance(): a function-local static, constructed by the
\* first call; cats counts the error_category objects constructed so far.
\* The result is <<the object referred to, the new count>>.
instance(cats) ==
  IF cats = 0 THEN <<[name |-> "cxxmpi", object |-> 1], 1>>
  ELSE <<[name |-> "cxxmpi", object |-> 1], cats>>

\* make_error_code(e): {e, error_category::instance()}
make_error_code(e, cats) == [value |-> e, category |-> instance(cats)[1]]

\* std::error_code::operator bool: value() != 0
ErrorCodeBool(ec) == ec.value # 0

\* Variant: the switch with the case of MPI_ERR_READ_ONLY missing.
default_error_condition_short(ev, self) ==
  CASE ev = MPI_ERR_NO_MEM ->
         [value |-> not_enough_memory, category |-> GenericCategory]
    [] ev = MPI_ERR_BUFFER ->
         [value |-> no_buffer_space, category |-> GenericCategory]
    [] ev = MPI_ERR_ACCESS ->
         [value |-> permission_denied, category |-> GenericCategory]
    [] ev = MPI_ERR_NO_SPACE ->
         [value |-> no_space_on_device, category |-> GenericCategory]
    [] ev = MPI_ERR_FILE_EXISTS ->
         [value |-> file_exists, category |-> GenericCategory]
    [] ev = MPI_ERR_NO_SUCH_FILE ->
         [value |-> no_such_file_or_directory, category |-> GenericCategory]
    [] ev = MPI_ERR_IO ->
         [value |-> io_error, category |-> GenericCategory]
    [] OTHER -> [value |-> ev, category |-> self]

\* error_category::default_error_condition(ev), called on category self
default_error_condition(ev, self) ==
  CASE ev = MPI_ERR_NO_MEM ->
         [value |-> not_enough_memory, category |-> GenericCategory]
    [] ev = MPI_ERR_BUFFER ->
         [value |-> no_buffer_space, category |-> GenericCategory]
    [] ev = MPI_ERR_ACCESS ->
         [value |-> permission_denied, category |-> GenericCategory]
    [] ev = MPI_ERR_NO_SPACE ->
         [value |-> no_space_on_device, category |-> GenericCategory]
    [] ev = MPI_ERR_FILE_EXISTS ->
         [value |-> file_exists, category |-> GenericCategory]
    [] ev = MPI_ERR_NO_SUCH_FILE ->
         [value |-> no_such_file_or_directory, category |-> GenericCategory]
    [] ev = MPI_ERR_IO ->
         [value |-> io_error, category |-> GenericCategory]
    [] ev = MPI_ERR_READ_ONLY ->
         [value |-> read_only_file_system, category |-> GenericCategory]
    [] OTHER -> [value |-> ev, category |-> self]

\* mpi_error(error_code): std::system_error{make_error_code(error_code), ..}
mpi_error(error_code, cats) ==
  [type |-> "mpi_error", code |-> make_error_code(error_code, cats)]

NotThrown == [type |-> "none", code |-> NoCode]

\* Variant: a check that lets negative result codes pass.
check_mpi_result_positive(result, cats) ==
  IF result > MPI_SUCCESS THEN mpi_error(result, cats) ELSE NotThrown

\* check_mpi_result(result): what it throws, NotThrown when it returns.
check_mpi_result(result, cats) ==
  IF result # MPI_SUCCESS THEN mpi_error(result, cats) ELSE NotThrown

\* What a library function that passes the result rc of a native call to
\* check_mpi_result throws: the exception type and the value of its code.
Thrown(rc) ==
  LET t == check_mpi_result(rc, err.cats)
  IN [type |-> t.type, code |-> t.code.value]

\* Characters std::format needs for the int ev: a sign and decimal digits.
RECURSIVE DecimalLen(_)
DecimalLen(ev) ==
  IF ev < 0 THEN 1 + DecimalLen(0 - ev)
  ELSE IF ev < 10 THEN 1 ELSE 1 + DecimalLen(ev \div 10)

\* Length of "Failed to get MPI error message for error code: "
FallbackPrefixLen == 48

\* A std::string, kept as where its text comes from, the code it names and
\* its length.
NoText == [text |-> "none", code |-> 0, len |-> 0]
FallbackText(ev) ==
  [text |-> "fallback", code |-> ev, len |-> FallbackPrefixLen + DecimalLen(ev)]

\* MPI_Error_string(ev, buffer, &length): the answers of the native library,
\* as [ret, length].  For a code it knows it writes a text of at least one
\* character; for any other code it either fails, which leaves length as
\* it was initialised (0), or writes a generic text.
MaxText == 2         \* longest native error text tried
KnownCodes == MPI_SUCCESS..MPI_ERR_READ_ONLY
MPI_Error_string(ev) ==
  {[ret |-> MPI_SUCCESS, length |-> n] : n \in 1..MaxText}
  \cup (IF ev \in KnownCodes THEN {}
        ELSE {[ret |-> MPI_ERR_ARG, length |-> 0]})

\* Variant: a message() that uses the buffer whatever the lookup returned.
message_unchecked(ev, out) ==
  [text |-> "native", code |-> ev, len |-> out.length]

\* error_category::message(ev), out being the answer of MPI_Error_string
message(ev, out) ==
  IF out.ret # MPI_SUCCESS THEN FallbackText(ev)
  ELSE [text |-> "native", code |-> ev, len |-> out.length]

ErrStart ==
  [op |-> "none", ev |-> 0, thrown |-> NotThrown, ec |-> NoCode,
   prev |-> NoCode, cond |-> NoCode, cats |-> 0,
   ret |-> MPI_SUCCESS, msg |-> NoText]

\* No free function called yet.
NoCall == [op |-> "none"]

\* The three resource kinds share no state: a run handles one of them.
InitHandles ==
  /\ resource \in {"comm", "dtype", "file"}
  /\ obj = [s \in Slots |-> NoObj]
  /\ nextId = FirstFresh
  /\ nat = [n \in Ids |->
              CASE n = MPI_COMM_WORLD -> [kind |-> "comm", size |-> WorldSize]
                [] n = MPI_COMM_SELF -> [kind |-> "comm", size |-> 1]
                [] n = MPI_INT -> [kind |-> "dtype", size |-> 0]
                [] OTHER -> [kind |-> "none", size |-> 0]]
  /\ ownAcq = {}
  /\ freed = [n \in Ids |-> 0]
  /\ nAdopt = 0
  /\ last = Did("init", 0, 0, FALSE, MPI_NULL)
  /\ err = ErrStart

Init == InitHandles /\ call = NoCall

\* --------------------------------------------------------- construction
\* X() = default: a null handle; a communicator wrapper starts with the
\* member initializers rank_{-1}, size_{-1}.
DefaultConstruct(d, k, own, wrap) ==
  /\ ~obj[d].alive
  /\ NativeKind(k) = resource
  /\ k = "cart" => wrap
  /\ obj' = [obj EXCEPT ![d] = Obj(k, own, wrap, MPI_NULL, -1, -1)]
  /\ last' = Did("default", d, 0, own, MPI_NULL)
  /\ UNCHANGED <<freed, nAdopt>>
  /\ NoAcquire

\* weak_X_handle(MPI_X): a bare non-owning handle naming any native value.
WeakFromNative(d, k, n) ==
  /\ ~obj[d].alive
  /\ k = resource
  /\ n \in Visible(k)
  /\ obj' = [obj EXCEPT ![d] = Obj(k, FALSE, FALSE, n, -1, -1)]
  /\ last' = Did("weak_from_native", d, 0, FALSE, n)
  /\ UNCHANGED <<freed, nAdopt>>
  /\ NoAcquire

\* X_handle{weak_X_handle{n}}: the explicit unique_ptr constructor, here for
\* the values no other holder releases: null, MPI_COMM_WORLD, MPI_COMM_SELF.
OwnFromNative(d, k, n) ==
  /\ ~obj[d].alive
  /\ k = resource
  /\ n \in {MPI_NULL} \cup (IF k = "comm" THEN Predefined(k) ELSE {})
  /\ obj' = [obj EXCEPT ![d] = Obj(k, TRUE, FALSE, n, -1, -1)]
  /\ last' = Did("own_from_native", d, 0, TRUE, n)
  /\ UNCHANGED <<freed, nAdopt>>
  /\ NoAcquire

\* Variant: a constructor that ignores the results of the two queries.
CommConstructUnchecked(d, k, own, n, sz, st, ob, fr, name, s) ==
  /\ obj' = [ob EXCEPT ![d] = Obj(k, own, TRUE, n, MPI_Comm_rank(n), sz)]
  /\ freed' = fr
  /\ last' = Did(name, d, s, own, n)

\* Variant: a constructor that keeps the handle in a raw member, so that a
\* query that throws leaves the communicator unreleased.
CommConstructLeaks(d, k, own, n, sz, st, ob, fr, name, s) ==
  \E rcRank \in NativeRc(st, MPI_ERR_COMM) :
    IF Thrown(rcRank).type # "none"
    THEN /\ obj' = ob
         /\ freed' = fr
         /\ last' = Op(name, d, s, own, n, MPI_SUCCESS, Thrown(rcRank), {})
    ELSE \E rcSize \in NativeRc(st, MPI_ERR_COMM) :
           IF Thrown(rcSize).type # "none"
           THEN /\ obj' = ob
                /\ freed' = fr
                /\ last' = Op(name, d, s, own, n, MPI_SUCCESS,
                              Thrown(rcSize), {})
           ELSE /\ obj' = [ob EXCEPT ![d] =
                             Obj(k, own, TRUE, n, MPI_Comm_rank(n), sz)]
                /\ freed' = fr
                /\ last' = Did(name, d, s, own, n)

\* comm(handle_type): handle_ takes the handle, then rank_ and size_ are
\* queried in that order.  When a query throws, the object never comes to
\* exist and the already constructed handle_ member is destroyed.
\* ob and fr are the objects and release counts the constructor starts from,
\* st the status of n for the native library and sz its group size.
CommConstruct(d, k, own, n, sz, st, ob, fr, name, s) ==
  \E rcRank \in NativeRc(st, MPI_ERR_COMM) :
    IF Thrown(rcRank).type # "none"
    THEN /\ obj' = ob
         /\ freed' = IF own THEN UniquePtrDrop(fr, k, n) ELSE fr
         /\ last' = Op(name, d, s, own, n, MPI_SUCCESS, Thrown(rcRank),
                       Released(fr, freed'))
    ELSE \E rcSize \in NativeRc(st, MPI_ERR_COMM) :
           IF Thrown(rcSize).type # "none"
           THEN /\ obj' = ob
                /\ freed' = IF own THEN UniquePtrDrop(fr, k, n) ELSE fr
                /\ last' = Op(name, d, s, own, n, MPI_SUCCESS,
                              Thrown(rcSize), Released(fr, freed'))
           ELSE /\ obj' = [ob EXCEPT ![d] =
                             Obj(k, own, TRUE, n, MPI_Comm_rank(n), sz)]
                /\ freed' = fr
                /\ last' = Did(name, d, s, own, n)

\* The handle a by-value handle_type parameter is initialised from leaves
\* the source: a unique_ptr is moved from (and left null), a weak handle
\* is copied.
GiveHandle(s) ==
  IF obj[s].own THEN [obj EXCEPT ![s].h = MPI_NULL] ELSE obj

\* X{handle}: comm(handle_type), basic_dtype(handle_type),
\* basic_file(handle_type), from the bare handle held by s.
WrapHandle(d, s) ==
  /\ ~obj[d].alive
  /\ obj[s].alive /\ ~obj[s].wrap
  /\ LET k == obj[s].kind
         n == obj[s].h
     IN IF k = "comm"
        THEN CommConstruct(d, k, obj[s].own, n, MPI_Comm_size(n),
                           Status(n, "comm"), GiveHandle(s), freed, "wrap", s)
        ELSE /\ obj' = [GiveHandle(s) EXCEPT ![d] =
                          Obj(k, obj[s].own, TRUE, n, -1, -1)]
             /\ freed' = freed
             /\ last' = Did("wrap", d, s, obj[s].own, n)
  /\ UNCHANGED nAdopt
  /\ NoAcquire

\* comm_world() / comm_self(): a copy of the static weak_comm singleton.
CopySingleton(d, n) ==
  /\ ~obj[d].alive
  /\ resource = "comm"
  /\ n \in {MPI_COMM_WORLD, MPI_COMM_SELF}
  /\ obj' = [obj EXCEPT ![d] =
               Obj("comm", FALSE, TRUE, n, MPI_Comm_rank(n), MPI_Comm_size(n))]
  /\ last' = Did("singleton", d, 0, FALSE, n)
  /\ UNCHANGED <<freed, nAdopt>>
  /\ NoAcquire

\* ------------------------------------------------- move, copy, destroy
\* Variant: a move constructor that moves the handle only and leaves rank_
\* and size_ at their member initializers.
MoveConstructHandleOnly(d, s) ==
  /\ ~obj[d].alive
  /\ obj[s].alive
  /\ obj' = [obj EXCEPT ![d] = [obj[s] EXCEPT !.rank = -1, !.size = -1],
                        ![s].h = IF obj[s].own THEN MPI_NULL ELSE @]
  /\ last' = Did("move_construct", d, s, obj[s].own, obj[s].h)
  /\ UNCHANGED <<freed, nAdopt>>
  /\ NoAcquire

\* Variant: a move constructor that leaves the source's handle in place.
MoveConstructKeepsSource(d, s) ==
  /\ ~obj[d].alive
  /\ obj[s].alive
  /\ obj' = [obj EXCEPT ![d] = obj[s]]
  /\ last' = Did("move_construct", d, s, obj[s].own, obj[s].h)
  /\ UNCHANGED <<freed, nAdopt>>
  /\ NoAcquire

\* X(X&&) = default: a unique_ptr member is moved from and left null, a
\* weak handle member is copied; rank_ and size_ are copied.
MoveConstruct(d, s) ==
  /\ ~obj[d].alive
  /\ obj[s].alive
  /\ obj' = [obj EXCEPT ![d] = obj[s],
                        ![s].h = IF obj[s].own THEN MPI_NULL ELSE @]
  /\ last' = Did("move_construct", d, s, obj[s].own, obj[s].h)
  /\ UNCHANGED <<freed, nAdopt>>
  /\ NoAcquire

\* Variant: a move assignment that overwrites the target's handle without
\* handing the old value to the deleter.
MoveAssignOverwrites(d, s) ==
  /\ obj[d].alive /\ obj[s].alive
  /\ SameType(obj[d], obj[s])
  /\ IF d = s
     THEN UNCHANGED obj
     ELSE obj' = [obj EXCEPT ![d] = obj[s],
                             ![s].h = IF obj[s].own THEN MPI_NULL ELSE @]
  /\ freed' = freed
  /\ last' = Did("move_assign", d, s, obj[d].own, obj[d].h)
  /\ UNCHANGED nAdopt
  /\ NoAcquire

\* operator=(X&&) = default: unique_ptr move assignment is
\* reset(other.release()); the value held before goes to the deleter.
MoveAssign(d, s) ==
  /\ obj[d].alive /\ obj[s].alive
  /\ SameType(obj[d], obj[s])
  /\ IF d = s
     THEN UNCHANGED <<obj, freed>>
     ELSE /\ obj' = [obj EXCEPT ![d] = obj[s],
                                ![s].h = IF obj[s].own THEN MPI_NULL ELSE @]
          /\ freed' = Drop(freed, obj[d])
  /\ last' = Op("move_assign", d, s, obj[d].own, obj[d].h, MPI_SUCCESS,
                NoExc, Released(freed, freed'))
  /\ UNCHANGED nAdopt
  /\ NoAcquire

\* Variant: a copy constructor that exists for the owning variant too.
CopyConstructAny(d, s) ==
  /\ ~obj[d].alive
  /\ obj[s].alive
  /\ obj' = [obj EXCEPT ![d] = obj[s]]
  /\ last' = Did("copy_construct", d, s, obj[s].own, obj[s].h)
  /\ UNCHANGED <<freed, nAdopt>>
  /\ NoAcquire

\* X(const X&): only when the handle type is copyable, i.e. non-owning.
CopyConstruct(d, s) ==
  /\ ~obj[d].alive
  /\ obj[s].alive /\ ~obj[s].own
  /\ obj' = [obj EXCEPT ![d] = obj[s]]
  /\ last' = Did("copy_construct", d, s, FALSE, obj[s].h)
  /\ UNCHANGED <<freed, nAdopt>>
  /\ NoAcquire

\* Variant: a copy assignment that assigns the handle and forgets rank_ and
\* size_.
CopyAssignHandleOnly(d, s) ==
  /\ obj[d].alive /\ obj[s].alive
  /\ ~obj[s].own
  /\ SameType(obj[d], obj[s])
  /\ obj' = [obj EXCEPT ![d].h = obj[s].h]
  /\ last' = Did("copy_assign", d, s, FALSE, obj[d].h)
  /\ UNCHANGED <<freed, nAdopt>>
  /\ NoAcquire

\* operator=(const X&): only for the non-owning variant.
CopyAssign(d, s) ==
  /\ obj[d].alive /\ obj[s].alive
  /\ ~obj[s].own
  /\ SameType(obj[d], obj[s])
  /\ obj' = [obj EXCEPT ![d] = obj[s]]
  /\ last' = Did("copy_assign", d, s, FALSE, obj[d].h)
  /\ UNCHANGED <<freed, nAdopt>>
  /\ NoAcquire

\* basic_comm<weak_comm_handle>(const basic_comm<comm_handle>&), the base
\* class constructor the cart_comm conversion delegates to.
WeakCommFromOwning(o) ==
  Obj(o.kind, FALSE, TRUE, o.h, o.rank, o.size)

\* Variant: a conversion that takes the handle out of the owner.
BorrowTakesOver(d, s) ==
  /\ ~obj[d].alive
  /\ obj[s].alive /\ obj[s].own /\ obj[s].wrap
  /\ obj[s].kind \in {"dtype", "file", "cart"}
  /\ obj' = [obj EXCEPT ![d] = Obj(obj[s].kind, FALSE, TRUE, obj[s].h,
                                   obj[s].rank, obj[s].size),
                        ![s].h = MPI_NULL]
  /\ last' = Did("borrow", d, s, FALSE, obj[s].h)
  /\ UNCHANGED <<freed, nAdopt>>
  /\ NoAcquire

\* Owning wrapper to non-owning wrapper: weak_dtype{dtype},
\* weak_file{file}, weak_cart_comm{cart_comm}.
Borrow(d, s) ==
  /\ ~obj[d].alive
  /\ obj[s].alive /\ obj[s].own /\ obj[s].wrap
  /\ obj[s].kind \in {"dtype", "file", "cart"}
  /\ obj' = [obj EXCEPT ![d] =
               IF obj[s].kind = "cart"
               THEN WeakCommFromOwning(obj[s])
               ELSE Obj(obj[s].kind, FALSE, TRUE, obj[s].h, -1, -1)]
  /\ last' = Did("borrow", d, s, FALSE, obj[s].h)
  /\ UNCHANGED <<freed, nAdopt>>
  /\ NoAcquire

\* weak_X_handle::release(): hands the native value out and becomes null.
WeakRelease(s) ==
  /\ obj[s].alive /\ ~obj[s].own /\ ~obj[s].wrap
  /\ obj' = [obj EXCEPT ![s].h = MPI_NULL]
  /\ last' = Did("weak_release", s, 0, FALSE, obj[s].h)
  /\ UNCHANGED <<freed, nAdopt>>
  /\ NoAcquire

\* ~X(): the handle member is destroyed.
Destroy(s) ==
  /\ obj[s].alive
  /\ obj' = [obj EXCEPT ![s] = NoObj]
  /\ freed' = Drop(freed, obj[s])
  /\ last' = Op("destroy", s, 0, obj[s].own, obj[s].h, MPI_SUCCESS, NoExc,
                Released(freed, freed'))
  /\ UNCHANGED nAdopt
  /\ NoAcquire

\* ------------------------------------------------------------ factories
\* Arguments a wrapper parameter can carry: native() of a living wrapper of
\* kind k, or of one of the library's ready-made weak wrappers.
WrapperNatives(k) ==
  {obj[s].h : s \in {x \in Slots : obj[x].alive /\ obj[x].wrap
                                   /\ NativeKind(obj[x].kind) = k}}

CommArgs == {MPI_COMM_WORLD, MPI_COMM_SELF} \cup WrapperNatives("comm")
DtypeArgs == {MPI_INT} \cup WrapperNatives("dtype")

\* Split constructor: create_split_comm acquires the communicator, then
\* rank_ and size_ are queried.  MPI_Comm_split with color MPI_UNDEFINED
\* succeeds and hands back MPI_COMM_NULL.  Every process of the base picks
\* the same color, so the new group has the size of the base.
SplitConstruct(d, bn, color) ==
  /\ ~obj[d].alive
  /\ resource = "comm"
  /\ bn \in CommArgs
  /\ \E rc \in NativeRc(Status(bn, "comm"), MPI_ERR_COMM) :
       IF Thrown(rc).type # "none"
       THEN /\ last' = Op("split", d, 0, TRUE, MPI_NULL, rc, Thrown(rc), {})
            /\ UNCHANGED <<obj, freed>>
            /\ NoAcquire
       ELSE IF color = MPI_UNDEFINED
       THEN /\ CommConstruct(d, "comm", TRUE, MPI_NULL, 0, "null",
                             obj, freed, "split", 0)
            /\ NoAcquire
       ELSE /\ CanAcquire
            /\ Acquire("comm", TRUE, MPI_Comm_size(bn))
            /\ CommConstruct(d, "comm", TRUE, nextId, MPI_Comm_size(bn),
                             "live", obj, freed, "split", 0)
  /\ UNCHANGED nAdopt

RECURSIVE Prod(_)
Prod(q) == IF q = <<>> THEN 1 ELSE Head(q) * Prod(Tail(q))

\* create_cart_comm after its length test: MPI_Cart_create,
\* check_mpi_result, then the basic_comm(handle_type) constructor.  A
\* process outside the grid gets MPI_COMM_NULL from a successful call.
CartCreateNative(d, own, bn, dims, periods) ==
  \E rc \in (IF Status(bn, "comm") = "live"
                /\ Prod(dims) > MPI_Comm_size(bn)
             THEN {MPI_ERR_ARG}
             ELSE NativeRc(Status(bn, "comm"), MPI_ERR_COMM)) :
    IF Thrown(rc).type # "none"
    THEN /\ last' = Op("cart_create", d, 0, own, MPI_NULL, rc,
                       Thrown(rc), {})
         /\ UNCHANGED <<obj, freed>>
         /\ NoAcquire
    ELSE IF MPI_Comm_rank(bn) >= Prod(dims)
    THEN /\ CommConstruct(d, "cart", own, MPI_NULL, 0, "null",
                          obj, freed, "cart_create", 0)
         /\ NoAcquire
    ELSE /\ CanAcquire
         /\ Acquire("comm", own, Prod(dims))
         /\ CommConstruct(d, "cart", own, nextId, Prod(dims), "live",
                          obj, freed, "cart_create", 0)

\* Variant: a constructor without the test of the two lengths.
CartCreateNoLengthTest(d, own, bn, dims, periods) ==
  /\ ~obj[d].alive
  /\ resource = "comm"
  /\ bn \in CommArgs
  /\ CartCreateNative(d, own, bn, dims, periods)
  /\ UNCHANGED nAdopt

\* basic_cart_comm(base, dims, periods, reorder): create_cart_comm tests
\* the two lengths before anything else.
CartCreate(d, own, bn, dims, periods) ==
  /\ ~obj[d].alive
  /\ resource = "comm"
  /\ bn \in CommArgs
  /\ IF Len(dims) # Len(periods)
     THEN /\ last' = Op("cart_create", d, 0, own, MPI_NULL, MPI_SUCCESS,
                        InvalidArgument, {})
          /\ UNCHANGED <<obj, freed>>
          /\ NoAcquire
     ELSE CartCreateNative(d, own, bn, dims, periods)
  /\ UNCHANGED nAdopt

\* Variant: a factory that wraps whatever the native call left behind
\* without looking at its result.
DtypeCreateUnchecked(d, rcs, name) ==
  /\ ~obj[d].alive
  /\ resource = "dtype"
  /\ \E rc \in rcs :
       IF rc # MPI_SUCCESS
       THEN /\ obj' = [obj EXCEPT ![d] =
                         Obj("dtype", TRUE, TRUE, MPI_NULL, -1, -1)]
            /\ freed' = freed
            /\ last' = Op(name, d, 0, TRUE, MPI_NULL, rc, NoExc, {})
            /\ NoAcquire
       ELSE /\ CanAcquire
            /\ Acquire("dtype", TRUE, 0)
            /\ obj' = [obj EXCEPT ![d] =
                         Obj("dtype", TRUE, TRUE, nextId, -1, -1)]
            /\ freed' = freed
            /\ last' = Did(name, d, 0, TRUE, nextId)
  /\ UNCHANGED nAdopt

\* create_*_dtype: the native call, check_mpi_result, then
\* dtype_handle{dtype}.  rcs are the results the native call can give.
DtypeCreate(d, rcs, name) ==
  /\ ~obj[d].alive
  /\ resource = "dtype"
  /\ \E rc \in rcs :
       IF Thrown(rc).type # "none"
       THEN /\ last' = Op(name, d, 0, TRUE, MPI_NULL, rc, Thrown(rc), {})
            /\ UNCHANGED <<obj, freed>>
            /\ NoAcquire
       ELSE /\ CanAcquire
            /\ Acquire("dtype", TRUE, 0)
            /\ obj' = [obj EXCEPT ![d] =
                         Obj("dtype", TRUE, TRUE, nextId, -1, -1)]
            /\ freed' = freed
            /\ last' = Did(name, d, 0, TRUE, nextId)
  /\ UNCHANGED nAdopt

\* MPI_Type_contiguous(count, base, &dtype)
ContiguousDtype(d, bn, count) ==
  /\ bn \in DtypeArgs
  /\ DtypeCreate(d, IF count < 0 THEN {MPI_ERR_COUNT}
                    ELSE NativeRc(Status(bn, "dtype"), MPI_ERR_TYPE),
                 "contiguous_dtype")

\* MPI_Type_vector(count, blocklength, stride, base, &dtype)
VectorDtype(d, bn, count, blocklength, stride) ==
  /\ bn \in DtypeArgs
  /\ DtypeCreate(d, IF count < 0 THEN {MPI_ERR_COUNT}
                    ELSE IF blocklength < 0 THEN {MPI_ERR_ARG}
                    ELSE NativeRc(Status(bn, "dtype"), MPI_ERR_TYPE),
                 "vector_dtype")

SubarrayOk(sizes, subsizes, starts) ==
  \A i \in 1..Len(sizes) :
    /\ sizes[i] >= 1
    /\ subsizes[i] >= 1 /\ subsizes[i] <= sizes[i]
    /\ starts[i] >= 0 /\ starts[i] <= sizes[i] - subsizes[i]

\* MPI_Type_create_subarray(n, sizes, subsizes, starts, order, base, &dtype);
\* the asserts require the three spans to have one length.
SubarrayDtype(d, bn, sizes, subsizes, starts) ==
  /\ bn \in DtypeArgs
  /\ Len(sizes) = Len(subsizes) /\ Len(sizes) = Len(starts)
  /\ DtypeCreate(d, IF ~SubarrayOk(sizes, subsizes, starts)
                    THEN {MPI_ERR_ARG}
                    ELSE NativeRc(Status(bn, "dtype"), MPI_ERR_TYPE),
                 "subarray_dtype")

\* MPI_Type_create_struct(n, blocklengths, displacements, types, &dtype);
\* the asserts require the three spans to have one length.
StructDtype(d, blocklengths, types) ==
  /\ Len(blocklengths) = Len(types)
  /\ \A i \in 1..Len(types) : types[i] \in DtypeArgs
  /\ DtypeCreate(d, IF \E i \in 1..Len(blocklengths) : blocklengths[i] < 0
                    THEN {MPI_ERR_ARG}
                    ELSE IF \E i \in 1..Len(types) :
                              Status(types[i], "dtype") = "null"
                    THEN {MPI_ERR_TYPE}
                    ELSE IF \E i \in 1..Len(types) :
                              Status(types[i], "dtype") = "stale"
                    THEN {MPI_SUCCESS, MPI_ERR_TYPE}
                    ELSE {MPI_SUCCESS, MPI_ERR_OTHER},
                 "struct_dtype")

\* open(filename, comm, mode, info): MPI_File_open into a weak handle,
\* check_mpi_result, then file{file_handle{fh}}.
FileOpen(d, cn) ==
  /\ ~obj[d].alive
  /\ resource = "file"
  /\ cn \in CommArgs
  /\ \E rc \in (IF Status(cn, "comm") = "live"
                THEN {MPI_SUCCESS, MPI_ERR_NO_SUCH_FILE, MPI_ERR_ACCESS}
                ELSE NativeRc(Status(cn, "comm"), MPI_ERR_COMM)) :
       IF Thrown(rc).type # "none"
       THEN /\ last' = Op("open", d, 0, TRUE, MPI_NULL, rc, Thrown(rc), {})
            /\ UNCHANGED <<obj, freed>>
            /\ NoAcquire
       ELSE /\ CanAcquire
            /\ Acquire("file", TRUE, 0)
            /\ obj' = [obj EXCEPT ![d] =
                         Obj("file", TRUE, TRUE, nextId, -1, -1)]
            /\ freed' = freed
            /\ last' = Did("open", d, 0, TRUE, nextId)
  /\ UNCHANGED nAdopt

\* X_handle{weak_X_handle{n}} for an acquired native value n that a living
\* object exposes through native(): the explicit unique_ptr constructor
\* accepts it.
AdoptNative(d, k, n) ==
  /\ ~obj[d].alive
  /\ k = resource
  /\ n \in Exposed(k) \cap FreshIds
  /\ nAdopt < MaxAdopt
  /\ obj' = [obj EXCEPT ![d] = Obj(k, TRUE, FALSE, n, -1, -1)]
  /\ nAdopt' = nAdopt + 1
  /\ last' = Did("adopt", d, 0, TRUE, n)
  /\ UNCHANGED freed
  /\ NoAcquire

\* ------------------------------------------------------- specification
Colors == {0, MPI_UNDEFINED}
DimsArgs == {<<WorldSize>>, <<WorldSize + 1>>, <<1, WorldSize>>}
PeriodsArgs == {<<TRUE>>, <<TRUE, FALSE>>}
Counts == {-1, 3}
SizesArgs == {<<-1, -1>>, <<4, 4>>}
BlockArgs == {<<1, 1>>, <<-1, 1>>}

Next ==
  \/ \E d \in Slots, k \in Kinds, own \in BOOLEAN, wrap \in BOOLEAN :
       DefaultConstruct(d, k, own, wrap)
  \/ \E d \in Slots, k \in Kinds, n \in 0..MaxId : WeakFromNative(d, k, n)
  \/ \E d \in Slots, k \in Kinds, n \in 0..MaxId : OwnFromNative(d, k, n)
  \/ \E d \in Slots, s \in Slots : WrapHandle(d, s)
  \/ \E d \in Slots, n \in Ids : CopySingleton(d, n)
  \/ \E d \in Slots, bn \in 0..MaxId, color \in Colors :
       SplitConstruct(d, bn, color)
  \/ \E d \in Slots, own \in BOOLEAN, bn \in 0..MaxId,
        dims \in DimsArgs, periods \in PeriodsArgs :
       CartCreate(d, own, bn, dims, periods)
  \/ \E d \in Slots, bn \in 0..MaxId, count \in Counts :
       ContiguousDtype(d, bn, count)
  \/ \E d \in Slots, bn \in 0..MaxId, count \in Counts, bl \in Counts :
       VectorDtype(d, bn, count, bl, 4)
  \/ \E d \in Slots, bn \in 0..MaxId, sizes \in SizesArgs :
       SubarrayDtype(d, bn, sizes, <<2, 2>>, <<1, 1>>)
  \/ \E d \in Slots, bl \in BlockArgs, bn \in 0..MaxId :
       StructDtype(d, bl, <<MPI_INT, bn>>)
  \/ \E d \in Slots, cn \in 0..MaxId : FileOpen(d, cn)
  \/ \E d \in Slots, s \in Slots : MoveConstruct(d, s)
  \/ \E d \in Slots, s \in Slots : MoveAssign(d, s)
  \/ \E d \in Slots, s \in Slots : CopyConstruct(d, s)
  \/ \E d \in Slots, s \in Slots : CopyAssign(d, s)
  \/ \E d \in Slots, s \in Slots : Borrow(d, s)
  \/ \E s \in Slots : WeakRelease(s)
  \/ \E s \in Slots : Destroy(s)

Spec == Init /\ [][Next]_vars

\* The same program with explicit construction of owning handles from
\* native values that are already in use.
NextAdopt ==
  \/ Next
  \/ \E d \in Slots, k \in Kinds, n \in Ids : AdoptNative(d, k, n)

SpecAdopt == Init /\ [][NextAdopt]_vars

\* --------------------------------- specification of error translation
\* err keeps the last call with its input and result, and for
\* make_error_code also the code made by the call before.
MaxCode == 41        \* largest result code tried
MaxNeg == 2          \* result codes down to -MaxNeg are tried
Codes == (0 - MaxNeg)..MaxCode

CallCheckMpiResult(result) ==
  /\ err' = [ErrStart EXCEPT !.op = "check_mpi_result", !.ev = result,
                        !.thrown = check_mpi_result(result, err.cats),
                        !.cats = IF result # MPI_SUCCESS
                                 THEN instance(err.cats)[2] ELSE err.cats]
  /\ UNCHANGED <<resource, obj, nextId, nat, ownAcq, freed, nAdopt, last,
                 call>>

CallMakeErrorCode(e) ==
  /\ err' = [ErrStart EXCEPT !.op = "make_error_code", !.ev = e,
                        !.prev = err.ec,
                        !.ec = make_error_code(e, err.cats),
                        !.cats = instance(err.cats)[2]]
  /\ UNCHANGED <<resource, obj, nextId, nat, ownAcq, freed, nAdopt, last,
                 call>>

CallDefaultErrorCondition(ev) ==
  /\ err' = [ErrStart EXCEPT !.op = "default_error_condition", !.ev = ev,
                        !.cond = default_error_condition(
                                   ev, instance(err.cats)[1]),
                        !.cats = instance(err.cats)[2]]
  /\ UNCHANGED <<resource, obj, nextId, nat, ownAcq, freed, nAdopt, last,
                 call>>

\* cat.message(ev) on the category object obtained from instance()
CallMessage(ev) ==
  /\ \E out \in MPI_Error_string(ev) :
       err' = [ErrStart EXCEPT !.op = "message", !.ev = ev,
                              !.ret = out.ret,
                              !.msg = message(ev, out),
                              !.cats = instance(err.cats)[2]]
  /\ UNCHANGED <<resource, obj, nextId, nat, ownAcq, freed, nAdopt, last,
                 call>>

InitErr == Init /\ resource = "comm"

NextErr ==
  \/ \E result \in Codes : CallCheckMpiResult(result)
  \/ \E e \in Codes : CallMakeErrorCode(e)
  \/ \E ev \in Codes : CallDefaultErrorCondition(ev)
  \/ \E ev \in Codes : CallMessage(ev)

SpecErr == InitErr /\ [][NextErr]_vars

\* ------------------------------------------- specification of create_dims
MaxProcs == 6        \* largest nprocs tried
MaxDims == 2         \* longest shape tried
MaxEntry == 3        \* largest entry of init_dims tried

RECURSIVE SeqProd(_)
SeqProd(q) == IF q = <<>> THEN 1 ELSE Head(q) * SeqProd(Tail(q))

\* The sequences of k positive integers whose product is m.
RECURSIVE Factorings(_, _)
Factorings(k, m) ==
  IF k = 0 THEN (IF m = 1 THEN {<<>>} ELSE {})
  ELSE UNION {{<<f>> \o q : q \in Factorings(k - 1, m \div f)} :
              f \in {g \in 1..m : m % g = 0}}

\* dims with its zero entries replaced, in order, by the entries of fill.
FillZeros(dims, fill) ==
  [i \in 1..Len(dims) |->
     IF dims[i] # 0 THEN dims[i]
     ELSE fill[Cardinality({j \in 1..i : dims[j] = 0})]]

NonZeroProd(dims) ==
  SeqProd([i \in 1..Len(dims) |-> IF dims[i] = 0 THEN 1 ELSE dims[i]])

\* MPI_Dims_create(nnodes, ndims, dims): the answers of the native
\* library, as [ret, dims].  Non-zero entries stay, zero entries are set so
\* that the product of all entries is nnodes; a negative entry, a
\* non-positive nnodes, or an nnodes that the entries given cannot reach is
\* an error and leaves dims alone.
MPI_Dims_create(nnodes, dims) ==
  LET failed == {[ret |-> MPI_ERR_ARG, dims |-> dims]}
      zeros == Cardinality({i \in 1..Len(dims) : dims[i] = 0})
  IN IF nnodes <= 0 \/ \E i \in 1..Len(dims) : dims[i] < 0
     THEN failed
     ELSE IF nnodes % NonZeroProd(dims) # 0
     THEN failed
     ELSE LET fills == Factorings(zeros, nnodes \div NonZeroProd(dims))
          IN IF fills = {} THEN failed
             ELSE {[ret |-> MPI_SUCCESS, dims |-> FillZeros(dims, f)] :
                   f \in fills}

\* What a create_dims call did: the exception it threw, the vector it
\* returned and the number of native calls it made.
DimsThrew(type) == [exc |-> type, dims |-> <<>>, native |-> 0]

\* The tail of both overloads: check_mpi_result on the native result, then
\* return dims.
DimsChecked(out) ==
  IF Thrown(out.ret).type # "none"
  THEN [exc |-> Thrown(out.ret).type, dims |-> <<>>, native |-> 1]
  ELSE [exc |-> "none", dims |-> out.dims, native |-> 1]

\* Variant: the overload without its test for ndims == 0.
create_dims_size_unguarded(nprocs, ndims) ==
  {DimsChecked(out) :
     out \in MPI_Dims_create(nprocs, [i \in 1..ndims |-> 0])}

\* create_dims(int nprocs, std::size_t ndims): the outcomes it can have
create_dims_size(nprocs, ndims) ==
  IF ndims = 0 THEN {DimsThrew("invalid_argument")}
  ELSE {DimsChecked(out) :
          out \in MPI_Dims_create(nprocs, [i \in 1..ndims |-> 0])}

\* Variant: the overload that hands the native library a zeroed vector
\* instead of a copy of init_dims.
create_dims_span_zeroed(nprocs, init_dims) ==
  IF Len(init_dims) = 0 THEN {DimsThrew("invalid_argument")}
  ELSE {DimsChecked(out) :
          out \in MPI_Dims_create(nprocs, [i \in 1..Len(init_dims) |-> 0])}

\* create_dims(int nprocs, std::span<const int> init_dims)
create_dims_span(nprocs, init_dims) ==
  IF Len(init_dims) = 0 THEN {DimsThrew("invalid_argument")}
  ELSE {DimsChecked(out) : out \in MPI_Dims_create(nprocs, init_dims)}

\* create_dims(int nprocs, std::initializer_list<int> init_dims)
create_dims_list(nprocs, init_dims) == create_dims_span(nprocs, init_dims)

ProcsArgs == -1..MaxProcs
NdimsArgs == 0..MaxDims
InitDimsArgs == UNION {[1..k -> -1..MaxEntry] : k \in 0..MaxDims}

DimsCall(name, nprocs, init, res) ==
  [op |-> name, nprocs |-> nprocs, init |-> init, exc |-> res.exc,
   dims |-> res.dims, native |-> res.native]

CallCreateDimsSize(nprocs, ndims) ==
  /\ \E res \in create_dims_size(nprocs, ndims) :
       call' = DimsCall("create_dims_size", nprocs,
                        [i \in 1..ndims |-> 0], res)
  /\ UNCHANGED <<resource, obj, nextId, nat, ownAcq, freed, nAdopt, last,
                 err>>

CallCreateDimsSpan(nprocs, init_dims) ==
  /\ \E res \in create_dims_span(nprocs, init_dims) :
       call' = DimsCall("create_dims_span", nprocs, init_dims, res)
  /\ UNCHANGED <<resource, obj, nextId, nat, ownAcq, freed, nAdopt, last,
                 err>>

CallCreateDimsList(nprocs, init_dims) ==
  /\ \E res \in create_dims_list(nprocs, init_dims) :
       call' = DimsCall("create_dims_list", nprocs, init_dims, res)
  /\ UNCHANGED <<resource, obj, nextId, nat, ownAcq, freed, nAdopt, last,
                 err>>

NextDims ==
  \/ \E nprocs \in ProcsArgs, ndims \in NdimsArgs :
       CallCreateDimsSize(nprocs, ndims)
  \/ \E nprocs \in ProcsArgs, init_dims \in InitDimsArgs :
       CallCreateDimsSpan(nprocs, init_dims)
  \/ \E nprocs \in ProcsArgs, init_dims \in InitDimsArgs :
       CallCreateDimsList(nprocs, init_dims)

SpecDims == InitErr /\ [][NextDims]_vars

\* ------------------------------ specification of the Cartesian queries
MaxGridDims == 2     \* most dimensions of a grid tried
MaxExtent == 3       \* largest extent of a grid dimension tried
MPI_PROC_NULL == -1

\* The topology the native library attached to a Cartesian communicator
\* made without reordering: extents, periodicity, and the rank me of the
\* calling process in it (the rank_ the wrapper cached).
RECURSIVE Pow(_, _)
Pow(b, e) == IF e = 0 THEN 1 ELSE b * Pow(b, e - 1)

\* Processes in the largest grid tried.
MaxGridSize == Pow(MaxExtent, MaxGridDims)

Topos ==
  UNION {{[dims |-> g, periods |-> p, me |-> r] :
            g \in [1..k -> 1..MaxExtent], p \in [1..k -> BOOLEAN],
            r \in 0..(MaxGridSize - 1)} : k \in 1..MaxGridDims}

CartTopos == {tp \in Topos : tp.me < SeqProd(tp.dims)}

\* Coordinates of rank r in a grid, last dimension varying fastest.
RECURSIVE CartCoordsOf(_, _)
CartCoordsOf(g, r) ==
  IF g = <<>> THEN <<>>
  ELSE LET n == Len(g)
       IN Append(CartCoordsOf(SubSeq(g, 1, n - 1), r \div g[n]), r % g[n])

\* Rank of coordinates c in a grid, last dimension varying fastest.
RECURSIVE CartRankOf(_, _)
CartRankOf(g, c) ==
  IF g = <<>> THEN 0
  ELSE LET n == Len(g)
       IN CartRankOf(SubSeq(g, 1, n - 1), SubSeq(c, 1, n - 1)) * g[n] + c[n]

\* MPI_Cartdim_get(comm, &ndims)
MPI_Cartdim_get(tp) == Len(tp.dims)

\* MPI_Cart_coords(comm, rank, maxdims, coords), as [ret, coords]
MPI_Cart_coords(tp, r) ==
  IF r \in 0..(SeqProd(tp.dims) - 1)
  THEN [ret |-> MPI_SUCCESS, coords |-> CartCoordsOf(tp.dims, r)]
  ELSE [ret |-> MPI_ERR_ARG, coords |-> [i \in 1..Len(tp.dims) |-> 0]]

\* A coordinate as the library reads it: wrapped when the dimension is
\* periodic.
WrapCoord(tp, i, x) == IF tp.periods[i] THEN x % tp.dims[i] ELSE x

\* MPI_Cart_rank(comm, coords, &rank), as [ret, rank]: a coordinate outside
\* a non-periodic dimension is an error and leaves rank alone.
MPI_Cart_rank(tp, c) ==
  IF \A i \in 1..Len(tp.dims) : WrapCoord(tp, i, c[i]) \in 0..(tp.dims[i] - 1)
  THEN [ret |-> MPI_SUCCESS,
        rank |-> CartRankOf(tp.dims,
                            [i \in 1..Len(tp.dims) |-> WrapCoord(tp, i, c[i])])]
  ELSE [ret |-> MPI_ERR_ARG, rank |-> MPI_PROC_NULL]

\* The process disp steps from the calling one along dimension i (from 1),
\* MPI_PROC_NULL beyond the end of a non-periodic dimension.
ShiftedRank(tp, i, disp) ==
  LET mine == CartCoordsOf(tp.dims, tp.me)
      x == WrapCoord(tp, i, mine[i] + disp)
  IN IF x \in 0..(tp.dims[i] - 1)
     THEN CartRankOf(tp.dims, [mine EXCEPT ![i] = x])
     ELSE MPI_PROC_NULL

\* MPI_Cart_shift(comm, direction, disp, &source, &dest), as
\* [ret, source, dest]; direction counts from 0.
MPI_Cart_shift(tp, direction, disp) ==
  IF direction \in 0..(Len(tp.dims) - 1)
  THEN [ret |-> MPI_SUCCESS,
        source |-> ShiftedRank(tp, direction + 1, 0 - disp),
        dest |-> ShiftedRank(tp, direction + 1, disp)]
  ELSE [ret |-> MPI_ERR_ARG, source |-> MPI_PROC_NULL, dest |-> MPI_PROC_NULL]

NoNeighbors ==
  [up |-> MPI_PROC_NULL, down |-> MPI_PROC_NULL,
   left |-> MPI_PROC_NULL, right |-> MPI_PROC_NULL]

\* What a query did: the exception thrown and the values returned.
CartResult(exc, coords, rk, nb) ==
  [exc |-> exc, coords |-> coords, rank |-> rk, nb |-> nb]

\* basic_cart_comm::ndims()
ndims(tp) == MPI_Cartdim_get(tp)

\* Variant: a coords(rank) that asks for the coordinates of the caller.
cart_coords_of_caller(tp, r) ==
  LET out == MPI_Cart_coords(tp, tp.me)
  IN IF Thrown(out.ret).type # "none"
     THEN CartResult(Thrown(out.ret).type, <<>>, MPI_PROC_NULL, NoNeighbors)
     ELSE CartResult("none", SubSeq(out.coords, 1, ndims(tp)),
                     MPI_PROC_NULL, NoNeighbors)

\* basic_cart_comm::coords(int rank): a vector of ndims() entries filled by
\* MPI_Cart_coords.
cart_coords(tp, r) ==
  LET out == MPI_Cart_coords(tp, r)
  IN IF Thrown(out.ret).type # "none"
     THEN CartResult(Thrown(out.ret).type, <<>>, MPI_PROC_NULL, NoNeighbors)
     ELSE CartResult("none", SubSeq(out.coords, 1, ndims(tp)),
                     MPI_PROC_NULL, NoNeighbors)

\* basic_cart_comm::coords(): coords(this->rank())
cart_coords_self(tp) == cart_coords(tp, tp.me)

\* basic_cart_comm::rank(std::span<const int> coords)
cart_rank(tp, c) ==
  LET out == MPI_Cart_rank(tp, c)
  IN IF Thrown(out.ret).type # "none"
     THEN CartResult(Thrown(out.ret).type, <<>>, MPI_PROC_NULL, NoNeighbors)
     ELSE CartResult("none", <<>>, out.rank, NoNeighbors)

\* basic_cart_comm::shift(direction, disp): the pair {source, dest},
\* returned in the fields up and down.
shift(tp, direction, disp) ==
  LET out == MPI_Cart_shift(tp, direction, disp)
  IN IF Thrown(out.ret).type # "none"
     THEN CartResult(Thrown(out.ret).type, <<>>, MPI_PROC_NULL, NoNeighbors)
     ELSE CartResult("none", <<>>, MPI_PROC_NULL,
                     [NoNeighbors EXCEPT !.up = out.source,
                                         !.down = out.dest])

\* Variant: a neighbors_2d() that takes the pair of shift(0, 1) the other
\* way round.
neighbors_2d_swapped(tp) ==
  LET ud == shift(tp, 0, 1)
      lr == shift(tp, 1, 1)
  IN IF ud.exc # "none" THEN ud
     ELSE IF lr.exc # "none" THEN lr
     ELSE CartResult("none", <<>>, MPI_PROC_NULL,
                     [up |-> ud.nb.down, down |-> ud.nb.up,
                      left |-> lr.nb.up, right |-> lr.nb.down])

\* basic_cart_comm::neighbors_2d(): shift(0, 1) gives {up, down}, then
\* shift(1, 1) gives {left, right}.
neighbors_2d(tp) ==
  LET ud == shift(tp, 0, 1)
      lr == shift(tp, 1, 1)
  IN IF ud.exc # "none" THEN ud
     ELSE IF lr.exc # "none" THEN lr
     ELSE CartResult("none", <<>>, MPI_PROC_NULL,
                     [up |-> ud.nb.up, down |-> ud.nb.down,
                      left |-> lr.nb.up, right |-> lr.nb.down])

CartCall(name, tp, arg, res) ==
  [op |-> name, topo |-> tp, arg |-> arg, exc |-> res.exc,
   coords |-> res.coords, rank |-> res.rank, nb |-> res.nb]

\* A Cartesian communicator exists and no query was made yet.
CartStart(tp) ==
  CartCall("cart_comm", tp, <<>>,
           CartResult("none", <<>>, MPI_PROC_NULL, NoNeighbors))

CartUnchanged ==
  UNCHANGED <<resource, obj, nextId, nat, ownAcq, freed, nAdopt, last, err>>

CallCoords(r) ==
  /\ call' = CartCall("coords", call.topo, <<r>>, cart_coords(call.topo, r))
  /\ CartUnchanged

CallCoordsSelf ==
  /\ call' = CartCall("coords_self", call.topo, <<>>,
                      cart_coords_self(call.topo))
  /\ CartUnchanged

CallRank(c) ==
  /\ Len(c) = Len(call.topo.dims)
  /\ call' = CartCall("rank", call.topo, c, cart_rank(call.topo, c))
  /\ CartUnchanged

\* rank(coords(r)): the coordinates just returned are handed to rank().
CallRankOfCoords ==
  /\ call.op = "coords" /\ call.exc = "none"
  /\ call' = CartCall("rank_of_coords", call.topo, call.arg,
                      [cart_rank(call.topo, call.coords)
                         EXCEPT !.coords = call.coords])
  /\ CartUnchanged

CallShift(direction, disp) ==
  /\ call' = CartCall("shift", call.topo, <<direction, disp>>,
                      shift(call.topo, direction, disp))
  /\ CartUnchanged

CallNeighbors2d ==
  /\ call' = CartCall("neighbors_2d", call.topo, <<>>,
                      neighbors_2d(call.topo))
  /\ CartUnchanged

RankArgs == -1..MaxGridSize
CoordArgs == UNION {[1..k -> -1..MaxExtent] : k \in 1..MaxGridDims}
DirectionArgs == 0..MaxGridDims
DispArgs == {-1, 1}

InitCart ==
  /\ InitHandles /\ resource = "comm"
  /\ call \in {CartStart(tp) : tp \in CartTopos}

NextCart ==
  \/ \E r \in RankArgs : CallCoords(r)
  \/ CallCoordsSelf
  \/ \E c \in CoordArgs : CallRank(c)
  \/ CallRankOfCoords
  \/ \E direction \in DirectionArgs, disp \in DispArgs :
       CallShift(direction, disp)
  \/ CallNeighbors2d

SpecCart == InitCart /\ [][NextCart]_vars

\* -------------------------------------------------------- request group
MaxReqs == 3         \* most requests a group is given
MaxTag == 2          \* operations a request can stand for

\* A slot of requests_ holds MPI_REQUEST_NULL, a started operation
\* ("active"), a started persistent operation ("persistent"), or a
\* persistent request that has completed ("inactive": the native library
\* keeps its handle).  tag tells the operations apart.
MPI_REQUEST_NULL == [kind |-> "null", tag |-> 0]

IsActive(r) == r.kind \in {"active", "persistent"}

\* What the native library leaves in a slot whose request it completes.
Completed(r) ==
  CASE r.kind = "active" -> MPI_REQUEST_NULL
    [] r.kind = "persistent" -> [r EXCEPT !.kind = "inactive"]
    [] OTHER -> r

CompleteAt(reqs, S) ==
  [i \in 1..Len(reqs) |-> IF i \in S THEN Completed(reqs[i]) ELSE reqs[i]]

ActiveAt(reqs) == {i \in 1..Len(reqs) : IsActive(reqs[i])}

\* status{}: MPI_Status status_{} that no native call has written.
NoStatus == [written |-> FALSE, source |-> 0]

\* The status the native library writes for a request: that of its
\* operation, or the empty status for a null or inactive request.
StatusOf(r) ==
  [written |-> TRUE, source |-> IF IsActive(r) THEN r.tag ELSE 0]

\* static_cast<size_t>(int): a negative index wraps around, to
\* high * 2^64 + low.
ToSizeT(index) == [high |-> IF index < 0 THEN 1 ELSE 0, low |-> index]

\* The outcomes of a native completion call: result code, the request
\* array and the statuses as the call leaves them, index and flag.
NativeOut(rc, reqs, statuses, index, flag) ==
  [rc |-> rc, reqs |-> reqs, statuses |-> statuses, index |-> index,
   flag |-> flag]

\* MPI_Waitall: completes every active request; when an operation fails
\* some of the requests have been completed and the others are left.
\* ignore: MPI_STATUSES_IGNORE was passed.
MPI_Waitall(reqs, statuses, ignore) ==
  {NativeOut(MPI_SUCCESS, CompleteAt(reqs, ActiveAt(reqs)),
             IF ignore THEN statuses
             ELSE [i \in 1..Len(reqs) |-> StatusOf(reqs[i])],
             MPI_UNDEFINED, 1)}
  \cup {NativeOut(MPI_ERR_OTHER, CompleteAt(reqs, S), statuses,
                  MPI_UNDEFINED, 0) :
          S \in (SUBSET ActiveAt(reqs)) \ {ActiveAt(reqs)}}

\* MPI_Testall: as MPI_Waitall when every request is complete (flag 1);
\* otherwise flag 0 and no request is touched.
MPI_Testall(reqs, statuses, ignore) ==
  MPI_Waitall(reqs, statuses, ignore)
  \cup {NativeOut(MPI_SUCCESS, reqs, statuses, MPI_UNDEFINED, 0) :
          x \in IF ActiveAt(reqs) = {} THEN {} ELSE {0}}

\* MPI_Waitany: completes one active request and reports its position;
\* with no active request it reports MPI_UNDEFINED and the empty status.
MPI_Waitany(reqs) ==
  IF ActiveAt(reqs) = {}
  THEN {NativeOut(MPI_SUCCESS, reqs, <<StatusOf(MPI_REQUEST_NULL)>>,
                  MPI_UNDEFINED, 1)}
  ELSE {NativeOut(MPI_SUCCESS, CompleteAt(reqs, {i}), <<StatusOf(reqs[i])>>,
                  i - 1, 1) : i \in ActiveAt(reqs)}
       \cup UNION {{NativeOut(MPI_ERR_OTHER, CompleteAt(reqs, S),
                                <<NoStatus>>, i - 1, 0) : S \in {{}, {i}}} :
                      i \in ActiveAt(reqs)}

\* MPI_Testany: as MPI_Waitany, or flag 0 and MPI_UNDEFINED when active
\* requests exist and none is complete.
MPI_Testany(reqs) ==
  MPI_Waitany(reqs)
  \cup {NativeOut(MPI_SUCCESS, reqs, <<NoStatus>>, MPI_UNDEFINED, 0) :
          x \in IF ActiveAt(reqs) = {} THEN {} ELSE {0}}

RuntimeError == [type |-> "runtime_error", code |-> MPI_SUCCESS]

\* What a member function of request_group does: requests_ afterwards, what
\* it threw, the native calls it made, the statuses it returned or wrote,
\* the bool it returned and the index it returned (<<>>: none).
GroupResult(reqs, exc, native, statuses, ret, index) ==
  [reqs |-> reqs, exc |-> exc, native |-> native, statuses |-> statuses,
   ret |-> ret, index |-> index]

\* check_mpi_result threw after the native call with outcome out.
GroupThrew(out) ==
  GroupResult(out.reqs, Thrown(out.rc), <<out>>, <<>>, FALSE, <<>>)

\* Variant: requests_ is cleared before the result of the native call is
\* looked at.
wait_all_without_status_clears_first(reqs) ==
  IF reqs = <<>>
  THEN {GroupResult(reqs, NoExc, <<>>, <<>>, FALSE, <<>>)}
  ELSE {IF Thrown(out.rc).type # "none"
        THEN [GroupThrew(out) EXCEPT !.reqs = <<>>]
        ELSE GroupResult(<<>>, NoExc, <<out>>, <<>>, FALSE, <<>>) :
          out \in MPI_Waitall(reqs, <<>>, TRUE)}

wait_all_without_status(reqs) ==
  IF reqs = <<>>
  THEN {GroupResult(reqs, NoExc, <<>>, <<>>, FALSE, <<>>)}
  ELSE {IF Thrown(out.rc).type # "none" THEN GroupThrew(out)
        ELSE GroupResult(<<>>, NoExc, <<out>>, <<>>, FALSE, <<>>) :
          out \in MPI_Waitall(reqs, <<>>, TRUE)}

\* Variant: wait_all without requests_.clear().
wait_all_keeps(reqs) ==
  IF reqs = <<>>
  THEN {GroupResult(reqs, NoExc, <<>>, <<>>, FALSE, <<>>)}
  ELSE {IF Thrown(out.rc).type # "none" THEN GroupThrew(out)
        ELSE GroupResult(out.reqs, NoExc, <<out>>, out.statuses, FALSE,
                         <<>>) :
          out \in MPI_Waitall(reqs, [i \in 1..Len(reqs) |-> NoStatus],
                              FALSE)}

wait_all(reqs) ==
  IF reqs = <<>>
  THEN {GroupResult(reqs, NoExc, <<>>, <<>>, FALSE, <<>>)}
  ELSE {IF Thrown(out.rc).type # "none" THEN GroupThrew(out)
        ELSE GroupResult(<<>>, NoExc, <<out>>, out.statuses, FALSE, <<>>) :
          out \in MPI_Waitall(reqs, [i \in 1..Len(reqs) |-> NoStatus],
                              FALSE)}

\* Variant: wait_any that leaves the slot as the native call left it.
wait_any_no_reset(reqs) ==
  IF reqs = <<>>
  THEN {GroupResult(reqs, RuntimeError, <<>>, <<>>, FALSE, <<>>)}
  ELSE {IF Thrown(out.rc).type # "none" THEN GroupThrew(out)
        ELSE GroupResult(out.reqs, NoExc, <<out>>, out.statuses, FALSE,
                         <<ToSizeT(out.index)>>) :
          out \in MPI_Waitany(reqs)}

wait_any(reqs) ==
  IF reqs = <<>>
  THEN {GroupResult(reqs, RuntimeError, <<>>, <<>>, FALSE, <<>>)}
  ELSE {IF Thrown(out.rc).type # "none" THEN GroupThrew(out)
        ELSE GroupResult(IF out.index >= 0
                         THEN [out.reqs EXCEPT ![out.index + 1] =
                                 MPI_REQUEST_NULL]
                         ELSE out.reqs,
                         NoExc, <<out>>, out.statuses, FALSE,
                         <<ToSizeT(out.index)>>) :
          out \in MPI_Waitany(reqs)}

test_all_without_status(reqs) ==
  IF reqs = <<>>
  THEN {GroupResult(reqs, NoExc, <<>>, <<>>, TRUE, <<>>)}
  ELSE {IF Thrown(out.rc).type # "none" THEN GroupThrew(out)
        ELSE IF out.flag # 0
        THEN GroupResult(<<>>, NoExc, <<out>>, <<>>, TRUE, <<>>)
        ELSE GroupResult(out.reqs, NoExc, <<out>>, <<>>, FALSE, <<>>) :
          out \in MPI_Testall(reqs, <<>>, TRUE)}

\* Variant: test_all that leaves the caller's vector alone on an empty
\* group.
test_all_no_clear(reqs, statuses) ==
  IF reqs = <<>>
  THEN {GroupResult(reqs, NoExc, <<>>, statuses, TRUE, <<>>)}
  ELSE LET resized == [i \in 1..Len(reqs) |->
                         IF i <= Len(statuses) THEN statuses[i]
                         ELSE NoStatus]
       IN {IF Thrown(out.rc).type # "none"
           THEN [GroupThrew(out) EXCEPT !.statuses = out.statuses]
           ELSE IF out.flag # 0
           THEN GroupResult(<<>>, NoExc, <<out>>, out.statuses, TRUE, <<>>)
           ELSE GroupResult(out.reqs, NoExc, <<out>>, out.statuses, FALSE,
                            <<>>) :
             out \in MPI_Testall(reqs, resized, FALSE)}

\* statuses: the caller's vector; resize keeps what fits and appends
\* status{}.
test_all(reqs, statuses) ==
  IF reqs = <<>>
  THEN {GroupResult(reqs, NoExc, <<>>, <<>>, TRUE, <<>>)}
  ELSE LET resized == [i \in 1..Len(reqs) |->
                         IF i <= Len(statuses) THEN statuses[i]
                         ELSE NoStatus]
       IN {IF Thrown(out.rc).type # "none"
           THEN [GroupThrew(out) EXCEPT !.statuses = out.statuses]
           ELSE IF out.flag # 0
           THEN GroupResult(<<>>, NoExc, <<out>>, out.statuses, TRUE, <<>>)
           ELSE GroupResult(out.reqs, NoExc, <<out>>, out.statuses, FALSE,
                            <<>>) :
             out \in MPI_Testall(reqs, resized, FALSE)}

test_any(reqs) ==
  IF reqs = <<>>
  THEN {GroupResult(reqs, NoExc, <<>>, <<>>, FALSE, <<>>)}
  ELSE {IF Thrown(out.rc).type # "none" THEN GroupThrew(out)
        ELSE IF out.flag # 0 /\ out.index >= 0
        THEN GroupResult([out.reqs EXCEPT ![out.index + 1] =
                            MPI_REQUEST_NULL],
                         NoExc, <<out>>, out.statuses, FALSE,
                         <<ToSizeT(out.index)>>)
        ELSE GroupResult(out.reqs, NoExc, <<out>>, out.statuses, FALSE,
                         <<>>) :
          out \in MPI_Testany(reqs)}

\* The group after the last call: the call, requests_ before it, the
\* argument it was given and its result.
GroupCall(name, before, arg, res) ==
  [op |-> name, before |-> before, arg |-> arg, reqs |-> res.reqs,
   exc |-> res.exc, native |-> res.native, statuses |-> res.statuses,
   ret |-> res.ret, index |-> res.index]

\* add(): a new slot holding MPI_REQUEST_NULL.
add ==
  /\ Len(call.reqs) < MaxReqs
  /\ call' = GroupCall("add", call.reqs, <<>>,
                       GroupResult(Append(call.reqs, MPI_REQUEST_NULL),
                                   NoExc, <<>>, <<>>, FALSE, <<>>))
  /\ CartUnchanged

\* The caller starts an operation on the reference add() has just returned
\* (isend(.., requests.add())).
StartRequest(r) ==
  /\ call.op = "add"
  /\ call' = [call EXCEPT !.op = "start",
                          !.before = call.reqs,
                          !.arg = <<r>>,
                          !.reqs[Len(call.reqs)] = r]
  /\ CartUnchanged

\* A call of a member function whose possible results are results.
GroupStep(name, arg, results) ==
  /\ \E res \in results : call' = GroupCall(name, call.reqs, arg, res)
  /\ CartUnchanged

\* request_group(): an empty group.
InitReq ==
  /\ InitHandles /\ resource = "comm"
  /\ call = GroupCall("request_group", <<>>, <<>>,
                      GroupResult(<<>>, NoExc, <<>>, <<>>, FALSE, <<>>))

NextReq ==
  \/ add
  \/ \E r \in [kind : {"active", "persistent"}, tag : 1..MaxTag] :
       StartRequest(r)
  \/ GroupStep("wait_all_without_status", <<>>,
               wait_all_without_status(call.reqs))
  \/ GroupStep("wait_all", <<>>, wait_all(call.reqs))
  \/ GroupStep("wait_any", <<>>, wait_any(call.reqs))
  \/ GroupStep("test_all_without_status", <<>>,
               test_all_without_status(call.reqs))
  \/ \E k \in 0..MaxReqs :
       GroupStep("test_all", [i \in 1..k |-> StatusOf(MPI_REQUEST_NULL)],
                 test_all(call.reqs,
                          [i \in 1..k |-> StatusOf(MPI_REQUEST_NULL)]))
  \/ GroupStep("test_any", <<>>, test_any(call.reqs))

SpecReq == InitReq /\ [][NextReq]_vars

\* ------------------------------------------------------------ universe
NUniv == 2           \* program variables that can hold a universe

\* A variable holds no universe ("none"), one whose handle_ is non-null
\* ("valid"), or a moved-from one whose handle_ is null ("moved").
\* explicit operator bool: handle_ != nullptr.
UniverseBool(u) == u = "valid"

\* MPI_Init_thread succeeds at most once in a process, and can fail.
MPI_Init_thread(initialised) ==
  IF initialised THEN {MPI_ERR_OTHER} ELSE {MPI_SUCCESS, MPI_ERR_OTHER}

\* The universes of the program, whether MPI was initialised, the number
\* of MPI_Finalize calls, and the last operation on a universe: the
\* variable u it acted on, its source v, the result rc of the native
\* initialisation, what it threw and whether it called MPI_Finalize.
UnivCall(name, u, v, univ, initialised, finalized, rc, exc, fin) ==
  [op |-> name, u |-> u, v |-> v, univ |-> univ,
   initialised |-> initialised, finalized |-> finalized, rc |-> rc,
   exc |-> exc, fin |-> fin]

\* universe(argc, argv, required)
universe(u) ==
  /\ call.univ[u] = "none"
  /\ \E rc \in MPI_Init_thread(call.initialised) :
       call' = IF rc # MPI_SUCCESS
               THEN UnivCall("universe", u, 0, call.univ, call.initialised,
                             call.finalized, rc, RuntimeError, FALSE)
               ELSE UnivCall("universe", u, 0,
                             [call.univ EXCEPT ![u] = "valid"], TRUE,
                             call.finalized, rc, NoExc, FALSE)
  /\ CartUnchanged

\* Variant: a move constructor that leaves the source its handle.
UniverseMoveKeepsSource(u, v) ==
  /\ call.univ[u] = "none" /\ call.univ[v] # "none"
  /\ call' = UnivCall("move", u, v, [call.univ EXCEPT ![u] = call.univ[v]],
                      call.initialised, call.finalized, MPI_SUCCESS, NoExc,
                      FALSE)
  /\ CartUnchanged

\* universe(universe&&) = default: the unique_ptr member is moved.
UniverseMove(u, v) ==
  /\ call.univ[u] = "none" /\ call.univ[v] # "none"
  /\ call' = UnivCall("move", u, v,
                      [call.univ EXCEPT ![u] = call.univ[v], ![v] = "moved"],
                      call.initialised, call.finalized, MPI_SUCCESS, NoExc,
                      FALSE)
  /\ CartUnchanged

\* operator=(universe&&) = default: handle_.reset(other.handle_.release()),
\* which runs the deleter on the handle the target held.
UniverseMoveAssign(u, v) ==
  /\ call.univ[u] # "none" /\ call.univ[v] # "none"
  /\ LET fin == u # v /\ UniverseBool(call.univ[u])
     IN call' = UnivCall("move_assign", u, v,
                         IF u = v THEN call.univ
                         ELSE [call.univ EXCEPT ![u] = call.univ[v],
                                                ![v] = "moved"],
                         call.initialised,
                         call.finalized + (IF fin THEN 1 ELSE 0),
                         MPI_SUCCESS, NoExc, fin)
  /\ CartUnchanged

\* ~universe() = default: the deleter calls MPI_Finalize when handle_ is
\* non-null.
UniverseDestroy(u) ==
  /\ call.univ[u] # "none"
  /\ LET fin == UniverseBool(call.univ[u])
     IN call' = UnivCall("destroy", u, 0, [call.univ EXCEPT ![u] = "none"],
                         call.initialised,
                         call.finalized + (IF fin THEN 1 ELSE 0),
                         MPI_SUCCESS, NoExc, fin)
  /\ CartUnchanged

\* The program starts without a universe; MPI is not initialised.
InitUniv ==
  /\ InitHandles
  /\ call = UnivCall("none", 0, 0, [u \in 1..NUniv |-> "none"], FALSE, 0,
                     MPI_SUCCESS, NoExc, FALSE)

\* A program creates native resources between initialisation and
\* finalization; its objects can be moved and destroyed at any time.
NextUniv ==
  \/ \E u \in 1..NUniv : universe(u)
  \/ \E u, v \in 1..NUniv : UniverseMove(u, v)
  \/ \E u, v \in 1..NUniv : UniverseMoveAssign(u, v)
  \/ \E u \in 1..NUniv : UniverseDestroy(u)
  \/ /\ call.initialised /\ call.finalized = 0
     /\ \E d \in Slots :
          \/ SplitConstruct(d, MPI_COMM_WORLD, 0)
          \/ ContiguousDtype(d, MPI_INT, 3)
          \/ FileOpen(d, MPI_COMM_WORLD)
  \/ \E d, s \in Slots : MoveConstruct(d, s)
  \/ \E s \in Slots : Destroy(s)

SpecUniv == InitUniv /\ [][NextUniv]_vars

\* -------------------------------------------------- file read and write
MaxSpan == 4         \* longest span handed to a read or write
MaxElems == 3        \* most T elements one item of a custom datatype covers

\* A read or write of an open file: the function called, data.size(),
\* whether the overload taking a datatype was used, the number of T
\* elements one item of the datatype covers (as_builtin_datatype<T>()
\* covers one), the count handed to the native call, the T elements the
\* native call accesses from data.data() on, and what was thrown.  The
\* sizes tried are far below INT_MAX, where static_cast<int> keeps the
\* value.
FileIo(name, size, dt) ==
  /\ \E rc \in NativeRc("live", MPI_ERR_OTHER) :
       call' = [op |-> name, size |-> size, custom |-> dt.custom,
                elems |-> dt.elems, count |-> size,
                accessed |-> size * dt.elems, exc |-> Thrown(rc)]
  /\ CartUnchanged

\* write_at(offset, data, status) and write_at(offset, data, dtype, status)
write_at(size, dt) == FileIo("write_at", size, dt)

\* read_at(offset, data, status) and read_at(offset, data, dtype, status)
read_at(size, dt) == FileIo("read_at", size, dt)

\* write_at_all, both overloads
write_at_all(size, dt) == FileIo("write_at_all", size, dt)

\* read_at_all, both overloads
read_at_all(size, dt) == FileIo("read_at_all", size, dt)

\* The datatype argument: none (the builtin datatype of T is used), or a
\* weak_dtype whose items cover k elements of T.
DtypeChoices ==
  {[custom |-> FALSE, elems |-> 1]}
  \cup {[custom |-> TRUE, elems |-> k] : k \in 1..MaxElems}

InitIo == InitHandles /\ resource = "file" /\ call = NoCall

NextIo ==
  \E size \in 0..MaxSpan, dt \in DtypeChoices :
    \/ write_at(size, dt)
    \/ read_at(size, dt)
    \/ write_at_all(size, dt)
    \/ read_at_all(size, dt)

SpecIo == InitIo /\ [][NextIo]_vars

TypeOK ==
  /\ nextId \in FirstFresh..(MaxId + 1)
  /\ \A n \in Ids : freed[n] \in Nat
  /\ \A s \in Slots : obj[s].h \in 0..MaxId

\* ------------------------------------------------------------- claims
\* The living owning objects whose handle is n.
OwnersOf(n) == {s \in Slots : obj[s].alive /\ obj[s].own /\ obj[s].h = n}

C2_MoveAssignReleasesOld ==
  [][(/\ last'.op = "move_assign" /\ last'.d # last'.s
      /\ obj[last'.d].own /\ obj[last'.d].wrap
      /\ obj[last'.d].h \in FreshIds
      /\ obj[last'.s].h # MPI_NULL)
     => LET d == last'.d
            s == last'.s
            old == obj[d].h
        IN /\ freed[old] = 0 /\ freed'[old] = 1
           /\ \A n \in Ids \ {old} : freed'[n] = freed[n]
           /\ obj'[d].h = obj[s].h /\ obj'[d].h # MPI_NULL
           /\ obj'[d].own /\ obj'[d].alive
           /\ obj'[s].h = MPI_NULL /\ obj'[s].alive]_vars

\* C2 witness: a move assignment replaced one acquired resource of an
\* owning wrapper by another and released the replaced one.
C2_Witness ==
  /\ last.op = "move_assign" /\ last.own /\ last.d # last.s
  /\ last.h \in FreshIds /\ last.rel = {last.h}
  /\ obj[last.d].wrap /\ obj[last.d].h \in FreshIds \ {last.h}
  /\ obj[last.s].h = MPI_NULL

\* C3: an operation on a non-owning handle or wrapper (construction, copy,
\* assignment, release(), conversion, destruction, the singletons) makes no
\* release call.
C3_WeakNeverReleases ==
  [][~last'.own => (freed' = freed /\ last'.rel = {})]_vars

\* C3 witness: a non-owning wrapper that held a live acquired communicator
\* was destroyed and the communicator was not released.
C3_Witness ==
  /\ last.op = "destroy" /\ ~last.own
  /\ last.h \in FreshIds /\ freed[last.h] = 0 /\ last.rel = {}

\* C4: destroying an owning communicator handle calls MPI_Comm_free exactly
\* when the handle is neither null nor MPI_COMM_WORLD nor MPI_COMM_SELF; the
\* predefined communicators are never passed to MPI_Comm_free.
C4_CommDeleter ==
  [][(/\ last'.op = "destroy" /\ obj[last'.d].own
      /\ NativeKind(obj[last'.d].kind) = "comm")
     => LET n == obj[last'.d].h
        IN /\ ~obj'[last'.d].alive
           /\ IF n \in {MPI_NULL, MPI_COMM_WORLD, MPI_COMM_SELF}
              THEN freed' = freed
              ELSE /\ freed'[n] = freed[n] + 1
                   /\ \A m \in Ids \ {n} : freed'[m] = freed[m]
           /\ freed'[MPI_COMM_WORLD] = 0
           /\ freed'[MPI_COMM_SELF] = 0]_vars

\* C4 witness: an owning handle of MPI_COMM_WORLD was destroyed without a
\* release call, after an acquired communicator had been released.
C4_Witness ==
  /\ last.op = "destroy" /\ last.own /\ last.h = MPI_COMM_WORLD
  /\ last.rel = {} /\ freed[MPI_COMM_WORLD] = 0
  /\ \E n \in ownAcq : freed[n] = 1

\* C5: converting an owning wrapper to its non-owning counterpart yields a
\* non-owning wrapper with the owner's native value, changes no other
\* object (the owner keeps its handle) and makes no release call; whether a
\* resource has been released depends on its owning holders alone, however
\* many borrows name it.
C5_BorrowIsPassive ==
  /\ [](\A s \in Slots :
          (obj[s].alive /\ ~obj[s].own /\ obj[s].h \in ownAcq)
          => (freed[obj[s].h] = IF OwnersOf(obj[s].h) = {} THEN 1 ELSE 0))
  /\ [][last'.op = "borrow"
        => LET d == last'.d
               s == last'.s
           IN /\ obj'[d].alive /\ ~obj'[d].own /\ obj'[d].wrap
              /\ obj'[d].h = obj[s].h
              /\ obj'[d].kind = obj[s].kind
              /\ \A x \in Slots \ {d} : obj'[x] = obj[x]
              /\ freed' = freed]_vars

\* C5 witness: a borrow of an owner that holds a live acquired resource.
C5_Witness ==
  /\ last.op = "borrow"
  /\ obj[last.s].own /\ obj[last.s].h \in ownAcq
  /\ obj[last.d].h = obj[last.s].h /\ ~obj[last.d].own
  /\ freed[obj[last.s].h] = 0

\* The one error_category object, as every caller sees it.
CxxmpiCategory == [name |-> "cxxmpi", object |-> 1]

\* C6 as stated: whatever public operations are used, no acquired resource
\* ever has two owning holders.
C6_NeverTwoOwners ==
  \A n \in FreshIds : Cardinality(OwnersOf(n)) <= 1

\* C6: no copy, move, conversion, borrow or wrapper construction adds an
\* owning holder to a resource that already exists; the number of owning
\* holders of such a resource grows only when an owning handle is
\* constructed explicitly from the native value, and as long as that has
\* not been done no resource has two owning holders.
C6_OwnersOnlyByExplicitAdoption ==
  /\ [](nAdopt = 0 => \A n \in FreshIds : Cardinality(OwnersOf(n)) <= 1)
  /\ [][\A n \in FreshIds :
          (n < nextId /\ Cardinality(OwnersOf(n)') > Cardinality(OwnersOf(n)))
          => last'.op = "adopt"]_vars

\* C6 witness: an owning handle was constructed from the native value that
\* an owning wrapper exposes, and the resource now has two owning holders.
C6_Witness ==
  /\ last.op = "adopt" /\ last.h \in ownAcq
  /\ Cardinality(OwnersOf(last.h)) = 2
  /\ freed[last.h] = 0

\* C7: check_mpi_result(result) returns normally exactly when result is
\* MPI_SUCCESS; for any other integer, negative ones included, it throws
\* mpi_error whose code has the value result and the cxxmpi category.
C7_CheckMpiResult ==
  err.op = "check_mpi_result"
  => /\ err.thrown.type = "none" <=> err.ev = MPI_SUCCESS
     /\ err.ev # MPI_SUCCESS
        => /\ err.thrown.type = "mpi_error"
           /\ err.thrown.code.value = err.ev
           /\ err.thrown.code.category = CxxmpiCategory

\* C7 witness: check_mpi_result was called with a negative result and threw.
C7_Witness ==
  /\ err.op = "check_mpi_result" /\ err.ev < MPI_SUCCESS
  /\ err.thrown.type = "mpi_error" /\ err.thrown.code.value = err.ev

\* C8: when the native creation call of a constructor or factory fails, the
\* call throws mpi_error carrying the result, no object (so no owning
\* handle) comes into existence, no native value is acquired, and no
\* release call is made.
C8_FailedCreation ==
  [][last'.rc # MPI_SUCCESS
     => /\ last'.exc.type = "mpi_error" /\ last'.exc.code = last'.rc
        /\ obj' = obj /\ ~obj'[last'.d].alive
        /\ freed' = freed /\ last'.rel = {}
        /\ nextId' = nextId /\ ownAcq' = ownAcq]_vars

\* C8 witness: a datatype factory was given a negative count while another
\* owning datatype was alive; it threw and nothing else changed.
C8_Witness ==
  /\ last.op = "contiguous_dtype" /\ last.rc = MPI_ERR_COUNT
  /\ last.exc.type = "mpi_error"
  /\ ~obj[last.d].alive
  /\ \E s \in Slots : obj[s].alive /\ obj[s].own /\ obj[s].h \in ownAcq
                                   /\ freed[obj[s].h] = 0

\* The mapping of C9, restated as a table of <<MPI code, std::errc>> pairs.
C9_Table ==
  {<<MPI_ERR_NO_MEM, not_enough_memory>>,
   <<MPI_ERR_BUFFER, no_buffer_space>>,
   <<MPI_ERR_ACCESS, permission_denied>>,
   <<MPI_ERR_NO_SPACE, no_space_on_device>>,
   <<MPI_ERR_FILE_EXISTS, file_exists>>,
   <<MPI_ERR_NO_SUCH_FILE, no_such_file_or_directory>>,
   <<MPI_ERR_IO, io_error>>,
   <<MPI_ERR_READ_ONLY, read_only_file_system>>}

\* C9: default_error_condition maps each of the eight listed MPI codes to
\* its generic condition and every other code ev to (ev, cxxmpi category).
C9_DefaultErrorCondition ==
  err.op = "default_error_condition"
  => IF \E p \in C9_Table : p[1] = err.ev
     THEN \E p \in C9_Table :
            /\ p[1] = err.ev
            /\ err.cond = [value |-> p[2], category |-> GenericCategory]
     ELSE err.cond = [value |-> err.ev, category |-> CxxmpiCategory]

\* C9 witness: MPI_ERR_READ_ONLY was mapped to read_only_file_system.
C9_Witness ==
  /\ err.op = "default_error_condition" /\ err.ev = MPI_ERR_READ_ONLY
  /\ err.cond.value = read_only_file_system
  /\ err.cond.category = GenericCategory

\* C10: make_error_code(e) has value e and the category object that
\* instance() returns on every call: one object, named "cxxmpi", the same
\* as in the code made by the call before; the code converts to false
\* exactly when e is MPI_SUCCESS.
C10_MakeErrorCode ==
  err.op = "make_error_code"
  => /\ err.ec.value = err.ev
     /\ err.ec.category.name = "cxxmpi"
     /\ err.cats = 1
     /\ err.prev # NoCode => err.ec.category = err.prev.category
     /\ ~ErrorCodeBool(err.ec) <=> err.ev = MPI_SUCCESS

\* C10 witness: make_error_code(MPI_SUCCESS) right after a call with another
\* value; both codes have the same category and the new one is false.
C10_Witness ==
  /\ err.op = "make_error_code" /\ err.ev = MPI_SUCCESS
  /\ err.prev # NoCode /\ err.prev.value # MPI_SUCCESS
  /\ err.ec.category = err.prev.category
  /\ ~ErrorCodeBool(err.ec)

\* C11: message(ev) is never empty, for MPI_SUCCESS, for the other codes
\* the native library knows and for those it does not; when the native
\* lookup fails the result is the fallback text that names ev.
C11_MessageNonEmpty ==
  err.op = "message"
  => /\ err.msg.len > 0
     /\ err.msg.code = err.ev
     /\ err.ret # MPI_SUCCESS => err.msg = FallbackText(err.ev)
     /\ err.ret = MPI_SUCCESS => err.msg.text = "native"

\* C11 witness: the native lookup failed for a negative code and message()
\* returned the fallback text, which is longer than its fixed part.
C11_Witness ==
  /\ err.op = "message" /\ err.ev < 0 /\ err.ret # MPI_SUCCESS
  /\ err.msg.text = "fallback" /\ err.msg.len > FallbackPrefixLen + 1

\* C12 as stated: a default-constructed communicator wrapper, owning or
\* not, reports rank() = 0, size() = 0 and native() = MPI_COMM_NULL.
C12_DefaultCommIsZero ==
  (/\ last.op = "default" /\ obj[last.d].wrap
   /\ NativeKind(obj[last.d].kind) = "comm")
  => /\ obj[last.d].rank = 0
     /\ obj[last.d].size = 0
     /\ obj[last.d].h = MPI_NULL

\* C13: constructing a communicator wrapper from a null handle throws
\* mpi_error, creates no object and releases nothing; a wrapper that has
\* just been constructed from a handle has a non-null native communicator.
C13_NullHandleThrows ==
  /\ [][(/\ last'.op = "wrap"
         /\ NativeKind(obj[last'.s].kind) = "comm"
         /\ obj[last'.s].h = MPI_NULL)
        => /\ last'.exc.type = "mpi_error"
           /\ ~obj'[last'.d].alive
           /\ freed' = freed]_vars
  /\ []((/\ last.op = "wrap" /\ last.exc.type = "none"
         /\ NativeKind(obj[last.d].kind) = "comm")
        => /\ obj[last.d].alive /\ obj[last.d].wrap
           /\ obj[last.d].h # MPI_NULL)

\* C13 witness: comm{weak_comm_handle{MPI_COMM_NULL}} threw mpi_error and
\* the variable that was to hold the wrapper holds no object.
C13_Witness ==
  /\ last.op = "wrap" /\ ~last.own /\ last.h = MPI_NULL
  /\ last.exc.type = "mpi_error" /\ last.exc.code = MPI_ERR_COMM
  /\ ~obj[last.d].alive
  /\ obj[last.s].alive /\ obj[last.s].kind = "comm"

\* C14: a move construction or move assignment from an owning communicator
\* gives the target the rank, size and native handle of the source and
\* leaves the source with the null handle, and does not free the
\* communicator; destroying an owning communicator object that holds null
\* frees nothing, destroying the one that holds the communicator frees it.
C14_MoveOwningComm ==
  /\ [][(/\ last'.op \in {"move_construct", "move_assign"}
         /\ last'.d # last'.s
         /\ obj[last'.s].own /\ obj[last'.s].wrap
         /\ NativeKind(obj[last'.s].kind) = "comm"
         /\ obj[last'.s].h \in FreshIds)
        => LET d == last'.d
               s == last'.s
               n == obj[s].h
           IN /\ obj'[d].alive /\ obj'[d].own
              /\ obj'[d].h = n
              /\ obj'[d].rank = obj[s].rank
              /\ obj'[d].size = obj[s].size
              /\ obj'[s].alive /\ obj'[s].h = MPI_NULL
              /\ freed'[n] = freed[n]]_vars
  /\ [][(/\ last'.op = "destroy" /\ obj[last'.d].own
         /\ NativeKind(obj[last'.d].kind) = "comm")
        => IF obj[last'.d].h = MPI_NULL
           THEN freed' = freed
           ELSE obj[last'.d].h \in FreshIds
                => freed'[obj[last'.d].h] = freed[obj[last'.d].h] + 1]_vars

\* C14 witness: an owning communicator made by a factory was move
\* constructed from; the target has its rank, size and handle, the source
\* holds null and the communicator is not freed.
C14_Witness ==
  /\ last.op = "move_construct" /\ last.own /\ last.h \in ownAcq
  /\ obj[last.d].wrap /\ NativeKind(obj[last.d].kind) = "comm"
  /\ obj[last.d].h = last.h /\ obj[last.d].rank = MyRank
  /\ obj[last.d].size > 0
  /\ obj[last.s].alive /\ obj[last.s].h = MPI_NULL
  /\ freed[last.h] = 0

\* C15: a copy construction or copy assignment of a communicator wrapper
\* happens only between non-owning objects; the target then has the rank,
\* size and native handle of the source, the source is unchanged and
\* nothing is released.
C15_CopyWeakComm ==
  [][(/\ last'.op \in {"copy_construct", "copy_assign"}
      /\ obj[last'.s].wrap
      /\ NativeKind(obj[last'.s].kind) = "comm")
     => LET d == last'.d
            s == last'.s
        IN /\ ~obj[s].own /\ ~obj'[d].own
           /\ obj'[d].alive /\ obj'[d].wrap
           /\ obj'[d].rank = obj[s].rank
           /\ obj'[d].size = obj[s].size
           /\ obj'[d].h = obj[s].h
           /\ obj'[s] = obj[s]
           /\ freed' = freed]_vars

\* C15 witness: a non-owning communicator that held another value was copy
\* assigned from a copy of comm_world().
C15_Witness ==
  /\ last.op = "copy_assign" /\ last.d # last.s
  /\ last.h # MPI_COMM_WORLD
  /\ obj[last.s].wrap /\ obj[last.s].kind = "comm"
  /\ obj[last.s].h = MPI_COMM_WORLD
  /\ obj[last.d].h = MPI_COMM_WORLD
  /\ obj[last.d].rank = MyRank /\ obj[last.d].size = WorldSize

\* The calls of the three create_dims overloads.
DimsOps == {"create_dims_size", "create_dims_span", "create_dims_list"}

\* C16: create_dims with ndims = 0 or with an empty init_dims throws
\* std::invalid_argument without a native call, whatever nprocs is; with a
\* non-empty shape it reaches the native library and never throws
\* std::invalid_argument.
C16_EmptyShapeRejected ==
  call.op \in DimsOps
  => IF Len(call.init) = 0
     THEN /\ call.exc = "invalid_argument"
          /\ call.native = 0
          /\ call.dims = <<>>
     ELSE call.exc # "invalid_argument" /\ call.native = 1

\* C16 witness: create_dims(4, 0) threw std::invalid_argument.
C16_Witness ==
  /\ call.op = "create_dims_size" /\ call.nprocs = 4 /\ call.init = <<>>
  /\ call.exc = "invalid_argument" /\ call.native = 0

\* C17: a create_dims call that returns gives a vector as long as the shape
\* asked for, with every non-zero entry of init_dims unchanged and with the
\* product of its entries equal to nprocs.
C17_DimsResult ==
  (call.op \in DimsOps /\ call.exc = "none")
  => /\ Len(call.dims) = Len(call.init)
     /\ \A i \in 1..Len(call.init) :
          call.init[i] # 0 => call.dims[i] = call.init[i]
     /\ \A i \in 1..Len(call.dims) : call.dims[i] > 0
     /\ SeqProd(call.dims) = call.nprocs

\* C17 witness: create_dims(6, {0, 2}) returned {3, 2}.
C17_Witness ==
  /\ call.op = "create_dims_span" /\ call.nprocs = 6
  /\ call.init = <<0, 2>> /\ call.exc = "none"
  /\ call.dims = <<3, 2>>

\* C18: a Cartesian constructor call whose dims and periods differ in
\* length throws std::invalid_argument and does nothing else: no object, no
\* native call result, no communicator acquired and none released.
C18_MismatchedLengths ==
  [][last'.op = "cart_create"
     => \A bn \in 0..MaxId, dims \in DimsArgs, periods \in PeriodsArgs :
          (/\ Len(dims) # Len(periods)
           /\ CartCreate(last'.d, last'.own, bn, dims, periods))
          => /\ last'.exc = InvalidArgument
             /\ last'.rc = MPI_SUCCESS /\ last'.rel = {}
             /\ obj' = obj /\ ~obj'[last'.d].alive
             /\ freed' = freed
             /\ nextId' = nextId /\ nat' = nat /\ ownAcq' = ownAcq]_vars

\* C18 witness: a Cartesian constructor threw std::invalid_argument while
\* an owning communicator was alive, which is still unreleased.
C18_Witness ==
  /\ last.op = "cart_create" /\ last.exc = InvalidArgument
  /\ ~obj[last.d].alive
  /\ \E s \in Slots : /\ obj[s].alive /\ obj[s].own
                      /\ obj[s].h \in ownAcq /\ freed[obj[s].h] = 0

\* Position of coordinates c in the row-major enumeration of grid g: the
\* sum of c[i] times the product of the extents after i.
RECURSIVE C19_RowMajorIndex(_, _, _)
C19_RowMajorIndex(g, c, i) ==
  IF i > Len(g) THEN 0
  ELSE c[i] * SeqProd(SubSeq(g, i + 1, Len(g)))
       + C19_RowMajorIndex(g, c, i + 1)

\* C19: on a Cartesian communicator made without reordering, coords(r) for
\* a rank r of the communicator is the row-major decomposition of r (in a
\* 2x2 grid rank 1 is (0,1) and rank 2 is (1,0)), rank(coords(r)) is r, and
\* coords() is coords(rank()).
C19_CoordsRankInverse ==
  LET tp == call.topo
  IN /\ (call.op = "coords" /\ call.arg[1] \in 0..(SeqProd(tp.dims) - 1))
        => /\ call.exc = "none"
           /\ Len(call.coords) = Len(tp.dims)
           /\ \A i \in 1..Len(tp.dims) :
                call.coords[i] \in 0..(tp.dims[i] - 1)
           /\ C19_RowMajorIndex(tp.dims, call.coords, 1) = call.arg[1]
     /\ (call.op = "coords" /\ tp.dims = <<2, 2>>)
        => /\ call.arg = <<1>> => call.coords = <<0, 1>>
           /\ call.arg = <<2>> => call.coords = <<1, 0>>
     /\ call.op = "rank_of_coords"
        => call.exc = "none" /\ call.rank = call.arg[1]
     /\ call.op = "coords_self"
        => /\ call.exc = "none"
           /\ Len(call.coords) = Len(tp.dims)
           /\ C19_RowMajorIndex(tp.dims, call.coords, 1) = tp.me
           /\ call.coords = cart_coords(tp, tp.me).coords

\* C19 witness: in a 2x3 grid coords(4) gave (1,1) and rank of it gave 4.
C19_Witness ==
  /\ call.op = "rank_of_coords" /\ call.topo.dims = <<2, 3>>
  /\ call.arg = <<4>> /\ call.coords = <<1, 1>> /\ call.rank = 4

\* C20: on a two-dimensional communicator periodic in both dimensions with
\* extents (d0, d1), neighbors_2d() at coordinates (c0, c1) gives up = rank
\* of (c0-1 mod d0, c1), down = rank of (c0+1 mod d0, c1), left = rank of
\* (c0, c1-1 mod d1), right = rank of (c0, c1+1 mod d1); up and down are the
\* source and destination of shift(0, 1), left and right those of
\* shift(1, 1).
C20_Neighbors2d ==
  LET tp == call.topo
      d0 == tp.dims[1]
      d1 == tp.dims[2]
      c0 == tp.me \div d1
      c1 == tp.me % d1
  IN (/\ call.op = "neighbors_2d" /\ Len(tp.dims) = 2
      /\ tp.periods = <<TRUE, TRUE>>)
     => /\ call.exc = "none"
        /\ call.nb.up = ((c0 - 1) % d0) * d1 + c1
        /\ call.nb.down = ((c0 + 1) % d0) * d1 + c1
        /\ call.nb.left = c0 * d1 + ((c1 - 1) % d1)
        /\ call.nb.right = c0 * d1 + ((c1 + 1) % d1)
        /\ call.nb.up = shift(tp, 0, 1).nb.up
        /\ call.nb.down = shift(tp, 0, 1).nb.down
        /\ call.nb.left = shift(tp, 1, 1).nb.up
        /\ call.nb.right = shift(tp, 1, 1).nb.down

\* C20 witness: in the middle of a periodic 3x3 grid the four neighbours
\* are the ranks 1, 7, 3 and 5.
C20_Witness ==
  /\ call.op = "neighbors_2d" /\ call.topo.dims = <<3, 3>>
  /\ call.topo.periods = <<TRUE, TRUE>> /\ call.topo.me = 4
  /\ call.nb = [up |-> 1, down |-> 7, left |-> 3, right |-> 5]

\* C23: when the rank or size query throws in the split constructor or in
\* the constructor taking an owning handle, after the native communicator
\* was acquired, that communicator is passed to MPI_Comm_free exactly once
\* in the failed construction; no object comes to exist and the handle the
\* constructor was given is left null.
C23_FailedConstructionReleases ==
  [][(/\ last'.op \in {"split", "wrap"}
      /\ last'.own /\ last'.h \in FreshIds
      /\ last'.rc = MPI_SUCCESS /\ last'.exc.type = "mpi_error")
     => /\ freed'[last'.h] = freed[last'.h] + 1
        /\ last'.rel = {last'.h}
        /\ \A n \in Ids \ {last'.h} : freed'[n] = freed[n]
        /\ ~obj'[last'.d].alive
        /\ last'.s # 0 => obj'[last'.s].h = MPI_NULL]_vars

\* C23 witness: a split acquired a communicator, a query threw, and the
\* communicator has been freed once while no variable holds an object.
C23_Witness ==
  /\ last.op = "split" /\ last.own /\ last.h \in FreshIds
  /\ last.rc = MPI_SUCCESS /\ last.exc.type = "mpi_error"
  /\ freed[last.h] = 1 /\ last.rel = {last.h}
  /\ last.h \in ownAcq
  /\ \A s \in Slots : ~obj[s].alive

\* A non-owning object in variable s of ob that reports a non-null native
\* value whose resource has been released (fr counts the releases).
C28_Dangling(ob, fr, s) ==
  /\ ob[s].alive /\ ~ob[s].own
  /\ ob[s].h \in FreshIds /\ fr[ob[s].h] > 0

C21_WaitAll ==
  /\ (call.op = "wait_all" /\ call.exc.type = "none")
     => /\ Len(call.statuses) = Len(call.before)
        /\ \A i \in 1..Len(call.before) :
             /\ call.statuses[i].written
             /\ call.statuses[i].source =
                  IF call.before[i].kind \in {"active", "persistent"}
                  THEN call.before[i].tag ELSE 0
        /\ call.reqs = <<>>
  /\ (call.op = "wait_all_without_status" /\ call.exc.type = "none")
     => call.reqs = <<>>
  /\ (call.op \in {"wait_all", "wait_all_without_status"}
      /\ call.before = <<>>)
     => /\ call.exc.type = "none" /\ call.native = <<>>
        /\ call.statuses = <<>>

\* C21 witness: wait_all on two started requests returned their two
\* statuses in the order of addition and emptied the group.
C21_Witness ==
  /\ call.op = "wait_all" /\ call.exc.type = "none"
  /\ Len(call.before) = 2
  /\ call.before[1].kind = "active" /\ call.before[2].kind = "active"
  /\ call.statuses[1].source = 2 /\ call.statuses[2].source = 1
  /\ call.reqs = <<>>

\* The size_t value v is less than n (n below 2^63).
C24_Less(v, n) == v.high = 0 /\ v.low < n

\* C24: wait_any on an empty group throws std::runtime_error without a
\* native call; otherwise the index it returns is less than size(), also
\* when every slot of the group is MPI_REQUEST_NULL.
C24_WaitAnyIndexInGroup ==
  call.op = "wait_any"
  => /\ call.before = <<>>
        => call.exc.type = "runtime_error" /\ call.native = <<>>
     /\ (call.before # <<>> /\ call.exc.type = "none")
        => C24_Less(call.index[1], Len(call.reqs))

\* C25: when wait_any or test_any reports the completion of the request at
\* index i, slot i becomes MPI_REQUEST_NULL and size() and the other slots
\* are unchanged; when test_any reports no completion, or the group is
\* empty, it returns no index and the group is unchanged.
C25_AnyResetsOneSlot ==
  /\ (/\ call.op \in {"wait_any", "test_any"} /\ call.exc.type = "none"
      /\ call.index # <<>> /\ call.index[1].high = 0)
     => LET i == call.index[1].low + 1
        IN /\ Len(call.reqs) = Len(call.before)
           /\ i \in 1..Len(call.reqs)
           /\ call.reqs[i] = MPI_REQUEST_NULL
           /\ \A j \in (1..Len(call.reqs)) \ {i} :
                call.reqs[j] = call.before[j]
  /\ (call.op = "test_any" /\ call.exc.type = "none"
      /\ (call.before = <<>> \/ call.native[1].flag = 0
          \/ call.native[1].index < 0))
     => call.index = <<>> /\ call.reqs = call.before
  /\ (call.op = "test_any" /\ call.before = <<>>)
     => call.exc.type = "none" /\ call.native = <<>>

\* C25 witness: wait_any completed the persistent request in the second of
\* two slots: that slot is MPI_REQUEST_NULL and the first still holds its
\* started request.
C25_Witness ==
  /\ call.op = "wait_any" /\ call.exc.type = "none"
  /\ Len(call.before) = 2
  /\ call.before[1].kind = "active" /\ call.before[2].kind = "persistent"
  /\ call.index = <<[high |-> 0, low |-> 1]>>
  /\ call.reqs = <<call.before[1], MPI_REQUEST_NULL>>

\* C26: test_all and test_all_without_status return true exactly when the
\* group is empty or the native library reports every request complete;
\* when they return true the group is empty afterwards, when they return
\* false size() is unchanged; test_all clears the caller's status vector on
\* an empty group and otherwise resizes it to the number of requests.
C26_TestAll ==
  /\ (call.op \in {"test_all", "test_all_without_status"}
      /\ call.exc.type = "none")
     => /\ call.ret <=> (call.before = <<>> \/ call.native[1].flag # 0)
        /\ call.ret => call.reqs = <<>>
        /\ ~call.ret => Len(call.reqs) = Len(call.before)
  /\ call.op = "test_all"
     => Len(call.statuses) = Len(call.before)

\* C26 witness: test_all on an empty group, given a vector of two statuses,
\* returned true and left the vector empty.
C26_Witness ==
  /\ call.op = "test_all" /\ call.before = <<>> /\ Len(call.arg) = 2
  /\ call.ret /\ call.statuses = <<>> /\ call.reqs = <<>>

\* C27: when the native wait or test call reports an error, the six
\* completion functions throw mpi_error and leave size() unchanged: the
\* requests are not cleared and every slot is as the native call left it.
C27_NativeErrorKeepsGroup ==
  (/\ call.op \in {"wait_all", "wait_all_without_status", "test_all",
                   "test_all_without_status", "wait_any", "test_any"}
   /\ call.native # <<>> /\ call.native[1].rc # MPI_SUCCESS)
  => /\ call.exc.type = "mpi_error" /\ call.exc.code = call.native[1].rc
     /\ Len(call.reqs) = Len(call.before)
     /\ call.reqs = call.native[1].reqs

\* C27 witness: wait_all_without_status threw mpi_error on a group of two
\* requests, one of which is still active afterwards.
C27_Witness ==
  /\ call.op = "wait_all_without_status" /\ call.exc.type = "mpi_error"
  /\ Len(call.reqs) = 2
  /\ \E i \in 1..2 : call.reqs[i].kind = "active"

\* The variables holding a universe that converts to true.
C22_Holders == {u \in 1..NUniv : call.univ[u] = "valid"}

\* C22: for a universe constructed successfully MPI_Finalize is called
\* exactly once, when the object that holds it after the move constructions
\* is destroyed (or overwritten by a move assignment); a moved-from universe
\* converts to false and its destruction does not finalize; when the native
\* initialisation fails the constructor throws std::runtime_error and
\* MPI_Finalize is not called.
C22_FinalizeOnce ==
  /\ [](/\ call.finalized <= 1
        /\ Cardinality(C22_Holders) <= 1
        /\ call.initialised
           => (call.finalized = 0 <=> Cardinality(C22_Holders) = 1)
        /\ ~call.initialised
           => (call.finalized = 0 /\ C22_Holders = {}))
  /\ [][/\ call'.finalized # call.finalized
           => /\ call'.finalized = call.finalized + 1
              /\ call'.op \in {"destroy", "move_assign"}
              /\ call.univ[call'.u] = "valid"
              /\ call'.univ[call'.u] # "valid"
        /\ (call'.op = "destroy" /\ call' # call)
           => /\ call'.fin <=> call.univ[call'.u] = "valid"
              /\ call.univ[call'.u] = "moved"
                 => call'.finalized = call.finalized
        /\ (call'.op = "move" /\ call' # call)
           => /\ ~UniverseBool(call'.univ[call'.v])
              /\ call'.univ[call'.u] = call.univ[call'.v]
              /\ call'.finalized = call.finalized
        /\ (call'.op = "universe" /\ call' # call
            /\ call'.rc # MPI_SUCCESS)
           => /\ call'.exc = RuntimeError
              /\ call'.univ = call.univ
              /\ call'.finalized = call.finalized
              /\ call'.initialised = call.initialised]_vars

\* C22 witness: the universe was constructed in the first variable, moved
\* into the second, and MPI_Finalize was called when the second was
\* destroyed; the moved-from first one is still there.
C22_Witness ==
  /\ call.op = "destroy" /\ call.u = 2 /\ call.fin
  /\ call.univ = <<"moved", "none">> /\ call.finalized = 1

\* C30: no native release (MPI_Comm_free, MPI_Type_free, MPI_File_close)
\* made by an owning handle follows the call of MPI_Finalize made by the
\* destruction of the universe.
C30_NoReleaseAfterFinalize ==
  [][call.finalized > 0 => freed' = freed]_vars

\* C29: write_at, read_at, write_at_all and read_at_all, also in the
\* overloads taking a custom datatype, never ask the native library to
\* access memory beyond the span: the count passed times the number of T
\* elements one datatype item covers is at most data.size().
C29_AccessWithinSpan ==
  call.op \in {"write_at", "read_at", "write_at_all", "read_at_all"}
  => /\ call.count * call.elems <= call.size
     /\ call.accessed <= call.size

====
